---- MODULE Spec2Model ----
(***************************************************************************)
(* Editorial teardown pipeline of the outreach automation repository:      *)
(* NarrativeDiagnosis.diagnose with its quality gate and bounded retries,  *)
(* and TeardownEngine.run, which runs isolation, diagnosis, evidence       *)
(* selection, rendering and playbook generation over the content items of  *)
(* one profile directory.                                                  *)
(*                                                                         *)
(* Python strings are TLA+ strings (sequences of characters); a Python     *)
(* dict is a function whose domain is its set of keys.  A JSON value of a  *)
(* verdict field is a record [isstr, s]: s is str(value), isstr tells      *)
(* whether the value is a Python str.                                      *)
(***************************************************************************)
EXTENDS Integers, Sequences, FiniteSets, TLC

VARIABLES
    \* ---- environment of one run (fixed by Init) ----
    api_key,        \* config.OPENAI_API_KEY is set
    ocr_backend,    \* pytesseract can be imported
    screenshot,     \* <profile_dir>/screenshot.png: "missing", "ok", "unreadable"
    post_files,     \* sorted post_screenshots/post_*.png, each "ok" or "unreadable"
    post_names,     \* file names in post_screenshots/, the i-th written for scraped post i
    clean_files,    \* keys whose clean_content/clean_*.png file exists
    \* ---- TeardownEngine.run ----
    pc,             \* position of run
    cursor,         \* items still to visit in the loop of the current stage
    results,        \* self.results: the artifact maps, each a list of entries
    quality_report, \* self.quality_report
    raised,         \* exception that left run (or the standalone call), "" if none
    \* ---- NarrativeDiagnosis.diagnose ----
    d_pc,           \* position inside diagnose
    d_key,          \* content key the call is made for
    attempt,        \* loop index of the retry loop
    ocr_text,       \* transcript of the image
    verdict,        \* verdict of the latest generation call
    issues,         \* issues of the latest quality check
    d_ret,          \* value returned by diagnose
    \* ---- a function of the pipeline called on its own ----
    u_call,         \* the call: the function and its arguments ([fn |-> ""] if none)
    u_ret,          \* what the call returned ([done |-> FALSE] before it returns)
    \* ---- observation ----
    gen_log,        \* generation calls of the current diagnose call: [verdict, issues]
    log,            \* stage executions so far: [stage, key, what]
    hist            \* per content key, the lifecycle states it went through

envVars  == <<api_key, ocr_backend, screenshot, post_files, post_names>>
runVars  == <<pc, cursor, results, quality_report>>
callVars == <<u_call, u_ret>>
diagVars == <<d_pc, d_key, attempt, ocr_text, verdict, issues, d_ret, gen_log>>
vars == <<api_key, ocr_backend, screenshot, post_files, post_names, clean_files,
          pc, cursor, results, quality_report, raised,
          d_pc, d_key, attempt, ocr_text, verdict, issues, d_ret,
          u_call, u_ret, gen_log, log, hist>>

----------------------------------------------------------------------------
(* Bounds of the model *)

\* most post screenshots in the profile directory
MaxPosts == 1
\* most clean_content files left behind by an earlier run
MaxStale == 1
\* most post screenshots in the directory whose processing order is checked
MaxScraped == 11

----------------------------------------------------------------------------
(* Python strings *)

UpperAlpha == "ABCDEFGHIJKLMNOPQRSTUVWXYZ"
LowerAlpha == "abcdefghijklmnopqrstuvwxyz"

\* the i-th character of s, as a string of length 1
CharAt(s, i) == SubSeq(s, i, i)

LowerChar(c) ==
    IF \E i \in 1..26 : CharAt(UpperAlpha, i) = c
    THEN CharAt(LowerAlpha, CHOOSE i \in 1..26 : CharAt(UpperAlpha, i) = c)
    ELSE c

\* str.lower()
RECURSIVE Lower(_)
Lower(s) == IF Len(s) = 0 THEN ""
            ELSE LowerChar(CharAt(s, 1)) \o Lower(SubSeq(s, 2, Len(s)))

\* `p in s` for strings
Contains(s, p) ==
    \E i \in 1..(Len(s) - Len(p) + 1) : SubSeq(s, i, i + Len(p) - 1) = p

\* s.startswith(p)
StartsWith(s, p) == Len(p) <= Len(s) /\ SubSeq(s, 1, Len(p)) = p

\* len(s.split()): the number of maximal runs of non-blank characters
WordCount(s) ==
    Cardinality({i \in 1..Len(s) :
        CharAt(s, i) # " " /\ (i = 1 \/ CharAt(s, i - 1) = " ")})

\* " ".join(parts)
RECURSIVE Join(_)
Join(parts) == IF Len(parts) = 0 THEN ""
               ELSE IF Len(parts) = 1 THEN parts[1]
               ELSE parts[1] \o " " \o Join(Tail(parts))

----------------------------------------------------------------------------
(* Python dicts and JSON values *)

Str(t)    == [isstr |-> TRUE,  s |-> t]
NonStr(t) == [isstr |-> FALSE, s |-> t]

EmptyDict == [k \in {} |-> Str("")]

\* d[k] = v
DictSet(d, k, v) == [x \in DOMAIN d \cup {k} |-> IF x = k THEN v ELSE d[x]]

\* d.get(k, "")
Get(d, k) == IF k \in DOMAIN d THEN d[k] ELSE Str("")

\* no function is called on its own; a call that has not returned
NoCall == [fn |-> ""]
NotReturned == [done |-> FALSE]

\* the keys of a verdict, in the order the prompt asks for them
VerdictFields ==
    <<"primary_story", "actual_signal", "core_gap", "consequence",
      "one_sentence_verdict">>

\* list(verdict.values()) of a generated verdict
Values(d) ==
    LET Present(k) == k \in DOMAIN d
        keys == SelectSeq(VerdictFields, Present)
    IN  [i \in 1..Len(keys) |-> d[keys[i]]]

----------------------------------------------------------------------------
(* The quality gate: narrative_diagnosis.py *)

BANNED_PHRASES ==
    <<"no change needed", "looks good", "well done", "great job",
      "add a hook", "improve engagement", "consider adding",
      "you might want to", "try adding", "boost your", "optimize your",
      "enhance your", "level up", "take it to the next level", "pro tip",
      "best practice", "industry standard", "thought leader",
      "value proposition">>

MAX_RETRIES_Four == 3 + 1
MAX_RETRIES == 3

MAX_VERDICT_WORDS_26 == 25 + 1
MAX_VERDICT_WORDS == 25

WEAK_STARTS ==
    <<"this could", "maybe", "perhaps", "it seems", "it appears", "potentially">>

GENERIC_GAPS ==
    <<"needs improvement", "could be better", "lacks clarity", "not optimized">>

COST_WORDS ==
    <<"miss", "lose", "skip", "ignore", "scroll", "forget", "overlook", "pass",
      "won't", "don't">>

\* " ".join(str(v).lower() for v in verdict.values())
AllText(v) ==
    LET vals == Values(v)
    IN  Join([i \in 1..Len(vals) |-> Lower(vals[i].s)])

\* the gate raises AttributeError: .split() or .lower() of a value that is no str
GateRaises(v) ==
    \/ ~Get(v, "one_sentence_verdict").isstr
    \/ ~Get(v, "core_gap").isstr
    \/ ~Get(v, "consequence").isstr

BannedIssues(v) ==
    LET all_text == AllText(v)
        Hit(p) == Contains(all_text, p)
        hits == SelectSeq(BANNED_PHRASES, Hit)
    IN  [i \in 1..Len(hits) |-> "Contains banned phrase: '" \o hits[i] \o "'"]

LengthIssues(v) ==
    LET word_count == WordCount(Get(v, "one_sentence_verdict").s)
    IN  IF word_count > MAX_VERDICT_WORDS
        THEN <<"Verdict too long (" \o ToString(word_count) \o " words, max 25)">>
        ELSE <<>>

WeakStartIssues_Anywhere(v) ==
    LET verdict_lower == Lower(Get(v, "one_sentence_verdict").s)
        Hit(w) == Contains(verdict_lower, w)
        hits == SelectSeq(WEAK_STARTS, Hit)
    IN  [i \in 1..Len(hits) |-> "Verdict starts weak: '" \o hits[i] \o "'"]
WeakStartIssues(v) ==
    LET verdict_lower == Lower(Get(v, "one_sentence_verdict").s)
        Hit(w) == StartsWith(verdict_lower, w)
        hits == SelectSeq(WEAK_STARTS, Hit)
    IN  [i \in 1..Len(hits) |-> "Verdict starts weak: '" \o hits[i] \o "'"]

GenericGapIssues(v) ==
    LET core_gap == Lower(Get(v, "core_gap").s)
        Hit(g) == Contains(core_gap, g)
        hits == SelectSeq(GENERIC_GAPS, Hit)
    IN  [i \in 1..Len(hits) |-> "Core gap is generic: '" \o hits[i] \o "'"]

ConsequenceIssues_Skipped(v) == <<>>
ConsequenceIssues(v) ==
    LET consequence == Lower(Get(v, "consequence").s)
    IN  IF \E i \in 1..Len(COST_WORDS) : Contains(consequence, COST_WORDS[i])
        THEN <<>>
        ELSE <<"Consequence doesn't mention a real cost/loss">>

\* NarrativeDiagnosis._check_verdict_quality, for a verdict it does not raise on
CheckVerdictQuality(v) ==
    BannedIssues(v) \o LengthIssues(v) \o WeakStartIssues(v)
        \o GenericGapIssues(v) \o ConsequenceIssues(v)

----------------------------------------------------------------------------
(* Model responses.  A generation response is [kind, obj]:                 *)
(*   "api_error"   the chat completion call fails or times out             *)
(*   "json"        the text is a JSON object, obj                          *)
(*   "json_other"  the text is valid JSON that is no object (a list)       *)
(*   "text"        no JSON and no {...} in the text                        *)
(*   "text_object" no JSON, but the text holds the flat JSON object obj    *)
(*   "text_braces" no JSON, and the {...} found in the text is no JSON     *)

V_GOOD ==
    [primary_story |-> Str("Founder story"),
     actual_signal |-> Str("Reads like a resume"),
     core_gap |-> Str("No reason to care"),
     consequence |-> Str("Readers scroll past"),
     one_sentence_verdict |-> Str("Credible, but forgettable.")]

V_BANNED   == [V_GOOD EXCEPT !.actual_signal = Str("It looks good on paper")]
V_UPPER    == [V_GOOD EXCEPT !.one_sentence_verdict = Str("A Thought Leader with no thoughts.")]
V_CROSS    == [V_GOOD EXCEPT !.primary_story = Str("Shows how it looks"),
                             !.actual_signal = Str("good enough for nobody")]
V_LONG     == [V_GOOD EXCEPT !.one_sentence_verdict = Str("so so so so so so so so so so so so so so so so so so so so so so so so so so")]
V_25       == [V_GOOD EXCEPT !.one_sentence_verdict = Str("Twenty five words so so so so so so so so so so so so so so so so so so so so so so")]
V_HEDGE    == [V_GOOD EXCEPT !.one_sentence_verdict = Str("Maybe this is fine.")]
V_GENERIC  == [V_GOOD EXCEPT !.core_gap = Str("The headline Needs Improvement")]
V_NOCOST   == [V_GOOD EXCEPT !.consequence = Str("Nothing happens")]
V_TWO      == [V_GOOD EXCEPT !.actual_signal = Str("Well done, great job"),
                             !.consequence = Str("It is weak")]
V_PARTIAL  == [consequence |-> Str("You lose readers")]
V_NULL     == [V_GOOD EXCEPT !.one_sentence_verdict = NonStr("None")]
V_NUMBER   == [V_GOOD EXCEPT !.primary_story = NonStr("7")]

Json(obj) == [kind |-> "json", obj |-> obj]

R_API    == [kind |-> "api_error", obj |-> EmptyDict]
R_OTHER  == [kind |-> "json_other", obj |-> EmptyDict]
R_TEXT   == [kind |-> "text", obj |-> EmptyDict]
R_OBJECT == [kind |-> "text_object", obj |-> V_GOOD]
R_BRACES == [kind |-> "text_braces", obj |-> EmptyDict]

\* the responses a standalone diagnose call is checked against
AllResponses ==
    {Json(V_GOOD), Json(V_BANNED), Json(V_UPPER), Json(V_CROSS), Json(V_LONG),
     Json(V_25), Json(V_HEDGE), Json(V_GENERIC), Json(V_NOCOST), Json(V_TWO),
     Json(V_PARTIAL), Json(V_NULL), Json(V_NUMBER),
     R_API, R_OTHER, R_TEXT, R_OBJECT, R_BRACES}

\* the responses a whole run is checked against
RunResponses == {Json(V_GOOD), Json(V_BANNED), R_API}

\* outcomes of the transcript call of _extract_text_from_image
T_CLEAN  == [fails |-> FALSE, text |-> "Founder at Acme"]
T_BANNED == [fails |-> FALSE, text |-> "Founder and thought leader"]
T_FAIL   == [fails |-> TRUE,  text |-> ""]

AllTranscripts == {T_CLEAN, T_BANNED, T_FAIL}
RunTranscripts == {T_CLEAN, T_FAIL}

\* the default structure of _generate_verdict
UNABLE_TO_PARSE ==
    [primary_story |-> Str("Unable to parse"),
     actual_signal |-> Str("Unable to parse"),
     core_gap |-> Str("Unable to parse"),
     consequence |-> Str("Unable to parse"),
     one_sentence_verdict |-> Str("Diagnosis failed - regenerate")]

\* NarrativeDiagnosis._generate_verdict on response r:
\* the exception it raises ("" if none), and else the value it returns
GenerateVerdict(r) ==
    CASE r.kind = "api_error"   -> [exc |-> "APIError", isdict |-> FALSE, value |-> EmptyDict]
      [] r.kind = "json"        -> [exc |-> "", isdict |-> TRUE, value |-> r.obj]
      [] r.kind = "json_other"  -> [exc |-> "", isdict |-> FALSE, value |-> EmptyDict]
      [] r.kind = "text_object" -> [exc |-> "", isdict |-> TRUE, value |-> r.obj]
      [] r.kind = "text_braces" -> [exc |-> "JSONDecodeError", isdict |-> FALSE, value |-> EmptyDict]
      [] OTHER                  -> [exc |-> "", isdict |-> TRUE, value |-> UNABLE_TO_PARSE]

\* every value _generate_verdict returns on the responses above
GeneratedVerdicts == {GenerateVerdict(r).value : r \in AllResponses}

\* _check_verdict_quality on each of them, evaluated once
GateIssues == [v \in GeneratedVerdicts |-> CheckVerdictQuality(v)]

----------------------------------------------------------------------------
(* NarrativeDiagnosis.diagnose *)

Event(stage, key, what) == [stage |-> stage, key |-> key, what |-> what]

\* an exception leaves the function that is running; inside run it leaves run
Raise(exc) ==
    /\ raised' = exc
    /\ pc' = IF pc = "standalone" THEN pc ELSE "raised"

\* the passing verdict as returned
PassResult(v, text) ==
    DictSet(DictSet(v, "ocr_text", Str(text)), "passed_quality_gate", TRUE)

\* the last attempt as returned after the loop
LastAttemptResult_Passed(v, text, iss) ==
    DictSet(DictSet(DictSet(v, "ocr_text", Str(text)),
                    "passed_quality_gate", TRUE),
            "quality_issues", iss)
LastAttemptResult(v, text, iss) ==
    DictSet(DictSet(DictSet(v, "ocr_text", Str(text)),
                    "passed_quality_gate", FALSE),
            "quality_issues", iss)

\* entry of diagnose(image_path, ...) for content key k
DiagEnter(k, exists) ==
    /\ d_pc = "idle"
    /\ d_key' = k
    /\ attempt' = 0
    /\ ocr_text' = ""
    /\ verdict' = EmptyDict
    /\ issues' = <<>>
    /\ d_ret' = EmptyDict
    /\ gen_log' = <<>>
    /\ IF exists
       THEN /\ d_pc' = "extract"
            /\ UNCHANGED <<pc, raised>>
       ELSE /\ d_pc' = "raised"
            /\ Raise("FileNotFoundError")

\* step 1: the transcript call
DiagExtractText(T) ==
    /\ d_pc = "extract"
    /\ \E t \in T :
         /\ log' = Append(log, Event("diagnosis", d_key, "transcript_call"))
         /\ IF t.fails
            THEN /\ d_pc' = "raised"
                 /\ Raise("APIError")
                 /\ UNCHANGED ocr_text
            ELSE /\ d_pc' = "generate"
                 /\ ocr_text' = t.text
                 /\ UNCHANGED <<pc, raised>>
    /\ UNCHANGED <<d_key, attempt, verdict, issues, d_ret, gen_log>>
    /\ UNCHANGED <<envVars, callVars, clean_files, cursor, results, quality_report, hist>>

\* one iteration of the loop: generation call, quality check, return or go on
DiagAttempt(R) ==
    /\ d_pc = "generate"
    /\ attempt < MAX_RETRIES
    /\ \E r \in R :
         LET g == GenerateVerdict(r) IN
         /\ log' = Append(log, Event("diagnosis", d_key, "generation_call"))
         /\ IF g.exc # ""
            THEN /\ d_pc' = "raised"
                 /\ Raise(g.exc)
                 /\ UNCHANGED <<attempt, verdict, issues, d_ret, gen_log>>
            ELSE IF ~g.isdict \/ GateRaises(g.value)
            THEN /\ d_pc' = "raised"
                 /\ Raise("AttributeError")
                 /\ UNCHANGED <<attempt, verdict, issues, d_ret, gen_log>>
            ELSE LET iss == GateIssues[g.value] IN
                 /\ verdict' = g.value
                 /\ issues' = iss
                 /\ gen_log' = Append(gen_log, [verdict |-> g.value, issues |-> iss])
                 /\ UNCHANGED <<pc, raised>>
                 /\ IF iss = <<>>
                    THEN /\ d_ret' = PassResult(g.value, ocr_text)
                         /\ d_pc' = "returned"
                         /\ UNCHANGED attempt
                    ELSE /\ attempt' = attempt + 1
                         /\ UNCHANGED <<d_pc, d_ret>>
    /\ UNCHANGED <<d_key, ocr_text>>
    /\ UNCHANGED <<envVars, callVars, clean_files, cursor, results, quality_report, hist>>

\* after the loop: return the last attempt with the warning
DiagReturnLast ==
    /\ d_pc = "generate"
    /\ attempt >= MAX_RETRIES
    /\ d_ret' = LastAttemptResult(verdict, ocr_text, issues)
    /\ d_pc' = "returned"
    /\ UNCHANGED <<d_key, attempt, ocr_text, verdict, issues, gen_log>>
    /\ UNCHANGED <<envVars, callVars, clean_files, runVars, raised, log, hist>>

----------------------------------------------------------------------------
(* A diagnose call on its own *)

ContentKeys == {"profile"} \cup {"post_" \o ToString(i) : i \in 1..MaxPosts}

InitDiag ==
    /\ api_key = TRUE
    /\ ocr_backend = TRUE
    /\ screenshot = "ok"
    /\ post_files = <<>>
    /\ post_names = <<>>
    /\ clean_files = {}
    /\ pc = "standalone"
    /\ cursor = <<>>
    /\ results = [clean_content |-> <<>>, diagnoses |-> <<>>, evidence |-> <<>>,
                  rendered |-> <<>>, playbooks |-> <<>>]
    /\ quality_report = [computed |-> FALSE]
    /\ raised = ""
    /\ d_pc = "idle"
    /\ d_key = ""
    /\ attempt = 0
    /\ ocr_text = ""
    /\ verdict = EmptyDict
    /\ issues = <<>>
    /\ d_ret = EmptyDict
    /\ gen_log = <<>>
    /\ u_call = NoCall
    /\ u_ret = NotReturned
    /\ log = <<>>
    /\ hist = [k \in ContentKeys |-> <<"PENDING">>]

CallDiagnose ==
    /\ pc = "standalone"
    /\ \E k \in {"profile", "post_1"}, exists \in BOOLEAN : DiagEnter(k, exists)
    /\ UNCHANGED <<envVars, callVars, clean_files, cursor, results, quality_report, log, hist>>

StandaloneExtractText == pc = "standalone" /\ DiagExtractText(AllTranscripts)

StandaloneAttempt == pc = "standalone" /\ DiagAttempt(AllResponses)

StandaloneReturnLast == pc = "standalone" /\ DiagReturnLast

NextDiag ==
    \/ CallDiagnose
    \/ StandaloneExtractText
    \/ StandaloneAttempt
    \/ StandaloneReturnLast

SpecDiag == InitDiag /\ [][NextDiag]_vars

----------------------------------------------------------------------------
(* Stage outcomes of a whole run *)

PostKey(i) == "post_" \o ToString(i)

\* the name capture_original_posts_screenshots gives the screenshot of the
\* i-th scraped post; without a date the index stands in for it
ScreenshotFilename(i, dated) ==
    LET date_str == IF dated THEN "20240105" ELSE "post_" \o ToString(i)
    IN  "post_" \o ToString(i) \o "_" \o date_str \o ".png"

\* profile first, then the posts by number (the sorted listing of fewer than
\* 10 post files)
KeyOrder == <<"profile">> \o [i \in 1..MaxPosts |-> PostKey(i)]

\* the keys of an artifact map, in insertion order
Keys(entries) == [i \in 1..Len(entries) |-> entries[i].key]
KeySet(entries) == {entries[i].key : i \in 1..Len(entries)}

\* entries.get(k, {}) for a key that is present
Lookup(entries, k) ==
    entries[CHOOSE i \in 1..Len(entries) : entries[i].key = k].value

Last(seq) == seq[Len(seq)]

\* results of match_text the run is checked against: none, or two line groups
MATCH_A == [text |-> "Founder at Acme", x1 |-> 40, y1 |-> 80, x2 |-> 220, y2 |-> 100,
            matched_source |-> "Element 1"]
MATCH_B == [text |-> "About", x1 |-> 40, y1 |-> 140, x2 |-> 100, y2 |-> 160,
            matched_source |-> "Element 2"]
RunMatches == {<<>>, <<MATCH_A, MATCH_B>>}

MAX_CAPTION == 35

\* EvidenceSelector.select_evidence from the matches on
SelectEvidence(matches, v) ==
    LET verdict_text == Get(v, "one_sentence_verdict").s
        caption == IF Len(verdict_text) > MAX_CAPTION
                   THEN SubSeq(verdict_text, 1, MAX_CAPTION) \o "..."
                   ELSE verdict_text
        evidence_items ==
            [idx \in 1..Len(matches) |->
                [id |-> idx,
                 why_it_matters |-> "Matches: " \o
                     SubSeq(matches[idx].matched_source, 1,
                            IF Len(matches[idx].matched_source) < 50
                            THEN Len(matches[idx].matched_source) ELSE 50),
                 editorial_caption |-> IF caption = "" THEN "Issue here" ELSE caption,
                 bounding_box |-> [x1 |-> matches[idx].x1, y1 |-> matches[idx].y1,
                                   x2 |-> matches[idx].x2, y2 |-> matches[idx].y2]]]
    IN  [evidence |-> evidence_items,
         evidence_strength |-> IF evidence_items # <<>> THEN "strong" ELSE "weak",
         verdict_supported |-> evidence_items # <<>>]

MIN_EVIDENCE == 1

\* EvidenceSelector.validate_evidence
ValidateEvidence(ev) ==
    ~(Len(ev.evidence) < MIN_EVIDENCE) /\ ~(ev.evidence_strength = "weak")

\* playbooks PlaybookGenerator.generate returns in a run: a parsed one,
\* and the minimal structure of a parse failure
PlaybookParsed(v) ==
    [editorial_verdict |-> Get(v, "one_sentence_verdict").s,
     why_it_fails |-> <<"Lists titles", "Hides the person", "No stakes">>,
     the_fix |-> "Shift from listing roles to telling one story",
     parse_error |-> FALSE]
PlaybookFailed(v) ==
    [editorial_verdict |-> Get(v, "one_sentence_verdict").s,
     why_it_fails |-> <<"Unable to generate detailed analysis">>,
     the_fix |-> "Regenerate playbook",
     parse_error |-> TRUE]

----------------------------------------------------------------------------
(* TeardownEngine.run *)

Mark(k, state) == [hist EXCEPT ![k] = Append(@, state)]

\* the items found by diagnose_all_content: clean_profile.png if it exists,
\* then sorted(clean_post_*.png)
DiagnosisItems_PostsFirst(files) ==
    LET Found(k) == k \in files
    IN  SelectSeq(Tail(KeyOrder), Found) \o SelectSeq(<<"profile">>, Found)
DiagnosisItems(files) ==
    LET Found(k) == k \in files IN SelectSeq(KeyOrder, Found)

Init ==
    /\ api_key \in BOOLEAN
    /\ ocr_backend \in BOOLEAN
    /\ screenshot \in {"missing", "ok", "unreadable"}
    /\ post_files \in UNION {[1..n -> {"ok", "unreadable"}] : n \in 0..MaxPosts}
    /\ post_names = [i \in 1..Len(post_files) |-> ScreenshotFilename(i, TRUE)]
    /\ clean_files \in {S \in SUBSET ContentKeys : Cardinality(S) <= MaxStale}
    /\ pc = "start"
    /\ cursor = <<>>
    /\ results = [clean_content |-> <<>>, diagnoses |-> <<>>, evidence |-> <<>>,
                  rendered |-> <<>>, playbooks |-> <<>>]
    /\ quality_report = [computed |-> FALSE]
    /\ raised = ""
    /\ d_pc = "idle"
    /\ d_key = ""
    /\ attempt = 0
    /\ ocr_text = ""
    /\ verdict = EmptyDict
    /\ issues = <<>>
    /\ d_ret = EmptyDict
    /\ gen_log = <<>>
    /\ u_call = NoCall
    /\ u_ret = NotReturned
    /\ log = <<>>
    /\ hist = [k \in ContentKeys |-> <<"PENDING">>]

\* run enters isolate_all_content: ContentIsolator() needs the API key
RunStart ==
    /\ pc = "start"
    /\ IF api_key
       THEN pc' = "isolate_profile" /\ UNCHANGED raised
       ELSE Raise("ValueError")
    /\ UNCHANGED <<envVars, callVars, clean_files, cursor, results, quality_report,
                   diagVars, log, hist>>

\* isolate_all_content: the profile screenshot
IsolateProfile ==
    /\ pc = "isolate_profile"
    /\ log' = Append(log, Event("isolation", "profile", screenshot))
    /\ CASE screenshot = "missing" ->
              /\ hist' = Mark("profile", "FAILED")
              /\ pc' = "isolate_posts"
              /\ UNCHANGED <<clean_files, results, raised>>
         [] screenshot = "unreadable" ->
              /\ hist' = Mark("profile", "FAILED")
              /\ Raise("UnidentifiedImageError")
              /\ UNCHANGED <<clean_files, results>>
         [] OTHER ->
              /\ hist' = Mark("profile", "ISOLATED")
              /\ clean_files' = clean_files \cup {"profile"}
              /\ results' = [results EXCEPT !.clean_content =
                                Append(@, [key |-> "profile", value |-> "clean_profile.png"])]
              /\ pc' = "isolate_posts"
              /\ UNCHANGED raised
    /\ cursor' = [i \in 1..Len(post_files) |-> PostKey(i)]
    /\ UNCHANGED <<envVars, callVars, quality_report, diagVars>>

\* isolate_all_content: the i-th post screenshot of the sorted listing
IsolatePost ==
    /\ pc = "isolate_posts"
    /\ cursor # <<>>
    /\ LET k == Head(cursor)
           i == Len(post_files) - Len(cursor) + 1
       IN  /\ log' = Append(log, Event("isolation", k, post_files[i]))
           /\ IF post_files[i] = "unreadable"
              THEN /\ hist' = Mark(k, "FAILED")
                   /\ Raise("UnidentifiedImageError")
                   /\ UNCHANGED <<clean_files, results>>
              ELSE /\ hist' = Mark(k, "ISOLATED")
                   /\ clean_files' = clean_files \cup {k}
                   /\ results' = [results EXCEPT !.clean_content =
                                    Append(@, [key |-> k, value |-> "clean_" \o k \o ".png"])]
                   /\ UNCHANGED <<pc, raised>>
    /\ cursor' = Tail(cursor)
    /\ UNCHANGED <<envVars, callVars, quality_report, diagVars>>

\* back in run: nothing isolated is an error; else diagnose_all_content starts
IsolationDone ==
    /\ pc = "isolate_posts"
    /\ cursor = <<>>
    /\ IF results.clean_content = <<>>
       THEN Raise("RuntimeError") /\ UNCHANGED cursor
       ELSE /\ pc' = "diagnose"
            /\ cursor' = DiagnosisItems(clean_files)
            /\ UNCHANGED raised
    /\ UNCHANGED <<envVars, callVars, clean_files, results, quality_report, diagVars, log, hist>>

\* diagnose_all_content calls engine.diagnose for the next clean image
DiagnoseNext ==
    /\ pc = "diagnose"
    /\ cursor # <<>>
    /\ DiagEnter(Head(cursor), Head(cursor) \in clean_files)
    /\ UNCHANGED <<envVars, callVars, clean_files, cursor, results, quality_report, log, hist>>

RunExtractText == pc = "diagnose" /\ DiagExtractText(RunTranscripts)

RunAttempt == pc = "diagnose" /\ DiagAttempt(RunResponses)

RunReturnLast == pc = "diagnose" /\ DiagReturnLast

\* results[key] = verdict
DiagnoseStore ==
    /\ pc = "diagnose"
    /\ d_pc = "returned"
    /\ results' = [results EXCEPT !.diagnoses =
                      Append(@, [key |-> d_key, value |-> d_ret])]
    /\ log' = Append(log, Event("diagnosis", d_key, "verdict"))
    /\ hist' = Mark(d_key, "DIAGNOSED")
    /\ cursor' = Tail(cursor)
    /\ d_pc' = "idle"
    /\ UNCHANGED <<envVars, callVars, clean_files, pc, quality_report, raised,
                   d_key, attempt, ocr_text, verdict, issues, d_ret, gen_log>>

\* diagnoses.json is written; select_evidence_for_all starts
DiagnosisDone ==
    /\ pc = "diagnose"
    /\ d_pc = "idle"
    /\ cursor = <<>>
    /\ log' = Append(log, Event("diagnosis", "", "write_diagnoses"))
    /\ pc' = "evidence"
    /\ cursor' = Keys(results.diagnoses)
    /\ UNCHANGED <<envVars, callVars, clean_files, results, quality_report, raised,
                   diagVars, hist>>

\* select_evidence_for_all: one diagnosed item
EvidenceNext ==
    /\ pc = "evidence"
    /\ cursor # <<>>
    /\ LET k == Head(cursor) IN
       IF k \notin clean_files
       THEN UNCHANGED <<results, raised, pc, log, hist>>
       ELSE IF ~ocr_backend
       THEN /\ log' = Append(log, Event("evidence", k, "ocr_missing"))
            /\ Raise("ImportError")
            /\ UNCHANGED <<results, hist>>
       ELSE \E matches \in RunMatches :
            LET ev == SelectEvidence(matches, Lookup(results.diagnoses, k))
                value == [evidence |-> ev.evidence,
                          evidence_strength |-> ev.evidence_strength,
                          verdict_supported |-> ev.verdict_supported,
                          is_valid |-> ValidateEvidence(ev)]
            IN  /\ results' = [results EXCEPT !.evidence =
                                  Append(@, [key |-> k, value |-> value])]
                /\ log' = Append(log, Event("evidence", k, "selected"))
                /\ hist' = Mark(k, "EVIDENCED")
                /\ UNCHANGED <<pc, raised>>
    /\ cursor' = Tail(cursor)
    /\ UNCHANGED <<envVars, callVars, clean_files, quality_report, diagVars>>

\* evidence.json is written; _render_hand_drawn starts
EvidenceDone ==
    /\ pc = "evidence"
    /\ cursor = <<>>
    /\ pc' = "render"
    /\ cursor' = Keys(results.evidence)
    /\ UNCHANGED <<envVars, callVars, clean_files, results, quality_report, raised,
                   diagVars, log, hist>>

\* _render_hand_drawn: one evidence entry
RenderNext_EmptyToo ==
    /\ pc = "render"
    /\ cursor # <<>>
    /\ LET k == Head(cursor)
       IN  IF k \notin clean_files
           THEN UNCHANGED <<results, log, hist>>
           ELSE /\ results' = [results EXCEPT !.rendered =
                                  Append(@, [key |-> k, value |-> k \o "_teardown.png"])]
                /\ log' = Append(log, Event("render", k, "rendered"))
                /\ hist' = Mark(k, "RENDERED")
    /\ cursor' = Tail(cursor)
    /\ UNCHANGED <<envVars, callVars, clean_files, pc, quality_report, raised, diagVars>>
RenderNext ==
    /\ pc = "render"
    /\ cursor # <<>>
    /\ LET k == Head(cursor)
           items == Lookup(results.evidence, k).evidence
       IN  IF items = <<>> \/ k \notin clean_files
           THEN UNCHANGED <<results, log, hist>>
           ELSE /\ results' = [results EXCEPT !.rendered =
                                  Append(@, [key |-> k, value |-> k \o "_teardown.png"])]
                /\ log' = Append(log, Event("render", k, "rendered"))
                /\ hist' = Mark(k, "RENDERED")
    /\ cursor' = Tail(cursor)
    /\ UNCHANGED <<envVars, callVars, clean_files, pc, quality_report, raised, diagVars>>

\* generate_all_playbooks starts
RenderDone ==
    /\ pc = "render"
    /\ cursor = <<>>
    /\ pc' = "playbook"
    /\ cursor' = Keys(results.diagnoses)
    /\ UNCHANGED <<envVars, callVars, clean_files, results, quality_report, raised,
                   diagVars, log, hist>>

\* generate_all_playbooks: one diagnosed item
PlaybookNext ==
    /\ pc = "playbook"
    /\ cursor # <<>>
    /\ LET k == Head(cursor)
           v == Lookup(results.diagnoses, k)
       IN  /\ log' = Append(log, Event("playbook", k, "playbook_call"))
           /\ \/ /\ Raise("APIError")
                 /\ UNCHANGED <<results, hist>>
              \/ /\ \E playbook \in {PlaybookParsed(v), PlaybookFailed(v)} :
                       results' = [results EXCEPT !.playbooks =
                                      Append(@, [key |-> k, value |-> playbook])]
                 /\ hist' = Mark(k, "PLAYBOOKED")
                 /\ UNCHANGED <<pc, raised>>
    /\ cursor' = Tail(cursor)
    /\ UNCHANGED <<envVars, callVars, clean_files, quality_report, diagVars>>

\* playbooks.json and the text versions are written
PlaybooksDone ==
    /\ pc = "playbook"
    /\ cursor = <<>>
    /\ pc' = "quality"
    /\ UNCHANGED <<envVars, callVars, clean_files, cursor, results, quality_report, raised,
                   diagVars, log, hist>>

----------------------------------------------------------------------------
(* TeardownEngine._run_quality_checks *)

MAX_CLEAR_WORDS == 20
PASS_SCORE_67 == 70 - 3
PASS_SCORE == 70

\* round(num / den * 100) for 0 <= num <= den, den > 0 (ties go to even)
RoundPercent(num, den) ==
    LET q == (num * 100) \div den
        r == (num * 100) % den
    IN  IF 2 * r < den THEN q
        ELSE IF 2 * r > den THEN q + 1
        ELSE IF q % 2 = 0 THEN q ELSE q + 1

\* the playbook of content key k, {} if there is none
PlaybookFix(k) ==
    IF k \in KeySet(results.playbooks)
    THEN Lookup(results.playbooks, k).the_fix ELSE ""

\* repr() of a str without a double quote in it
ReprStr(t) == IF Contains(t, "'") THEN "\"" \o t \o "\"" ELSE "'" \o t \o "'"

\* repr() of a list of such strings
RECURSIVE ReprItems(_)
ReprItems(list) ==
    IF list = <<>> THEN ""
    ELSE IF Len(list) = 1 THEN ReprStr(list[1])
    ELSE ReprStr(list[1]) \o ", " \o ReprItems(Tail(list))
ReprList(list) == "[" \o ReprItems(list) \o "]"

\* the three checks of one diagnosed item: points, checks, warnings (the
\* entries without their leading tick or warning sign)
ItemChecks(entry) ==
    LET k == entry.key
        v == Get(entry.value, "one_sentence_verdict").s
        clear == v # "" /\ WordCount(v) <= MAX_CLEAR_WORDS
        gate == entry.value.passed_quality_gate
        quality_issues == IF "quality_issues" \in DOMAIN entry.value
                          THEN entry.value.quality_issues ELSE <<>>
        the_fix == PlaybookFix(k)
        fix == the_fix # "" /\ Contains(Lower(the_fix), "to")
        B(b) == IF b THEN 1 ELSE 0
    IN  [points |-> B(clear) + B(gate) + B(fix),
         checks |->
            (IF clear THEN <<k \o ": Clear one-sentence verdict">> ELSE <<>>)
            \o (IF gate THEN <<k \o ": Passed quality gate">> ELSE <<>>)
            \o (IF fix THEN <<k \o ": Clear, directional fix">> ELSE <<>>),
         warnings |->
            (IF clear THEN <<>> ELSE <<k \o ": Verdict unclear or too long">>)
            \o (IF gate THEN <<>> ELSE <<k \o ": Quality issues: " \o ReprList(quality_issues)>>)
            \o (IF fix THEN <<>> ELSE <<k \o ": Fix lacks clear direction">>)]

RECURSIVE SumPoints(_)
SumPoints(items) ==
    IF items = <<>> THEN 0 ELSE items[1].points + SumPoints(Tail(items))

RECURSIVE Concat(_)
Concat(lists) == IF lists = <<>> THEN <<>> ELSE lists[1] \o Concat(Tail(lists))

RunQualityChecks ==
    LET items == [i \in 1..Len(results.diagnoses) |-> ItemChecks(results.diagnoses[i])]
        max_score == 3 * Len(items)
        current_score == SumPoints(items)
        score == IF max_score > 0 THEN RoundPercent(current_score, max_score) ELSE 0
    IN  [computed |-> TRUE,
         passed |-> ~(score < PASS_SCORE),
         checks |-> Concat([i \in 1..Len(items) |-> items[i].checks]),
         warnings |-> Concat([i \in 1..Len(items) |-> items[i].warnings]),
         score |-> score]

\* the quality check, the summary file and the return of run
QualityCheck ==
    /\ pc = "quality"
    /\ quality_report' = RunQualityChecks
    /\ hist' = [k \in ContentKeys |->
                   IF Last(hist[k]) = "PLAYBOOKED" THEN Append(hist[k], "DONE")
                   ELSE hist[k]]
    /\ pc' = "done"
    /\ UNCHANGED <<envVars, callVars, clean_files, cursor, results, raised, diagVars, log>>

Next ==
    \/ RunStart
    \/ IsolateProfile
    \/ IsolatePost
    \/ IsolationDone
    \/ DiagnoseNext
    \/ RunExtractText
    \/ RunAttempt
    \/ RunReturnLast
    \/ DiagnoseStore
    \/ DiagnosisDone
    \/ EvidenceNext
    \/ EvidenceDone
    \/ RenderNext
    \/ RenderDone
    \/ PlaybookNext
    \/ PlaybooksDone
    \/ QualityCheck

Spec == Init /\ [][Next]_vars

----------------------------------------------------------------------------
(* The order in which the items of a directory are processed:              *)
(* isolate_all_content and diagnose_all_content on a directory of readable *)
(* screenshots, every model call succeeding.                               *)

\* the characters of the file names, by code point
CodeOrder == ".0123456789_abcdefghijklmnopqrstuvwxyz"

CodeRank(c) == CHOOSE i \in 1..Len(CodeOrder) : CharAt(CodeOrder, i) = c

\* a < b for Python strings
StrLess(a, b) ==
    LET n == IF Len(a) < Len(b) THEN Len(a) ELSE Len(b)
        diff == {i \in 1..n : CharAt(a, i) # CharAt(b, i)}
    IN  IF diff = {} THEN Len(a) < Len(b)
        ELSE LET d == CHOOSE i \in diff : \A j \in diff : i <= j
             IN  CodeRank(CharAt(a, d)) < CodeRank(CharAt(b, d))

\* sorted(names)
RECURSIVE Sorted(_)
Sorted(names) ==
    IF names = {} THEN <<>>
    ELSE LET first == CHOOSE x \in names : \A y \in names \ {x} : StrLess(x, y)
         IN  <<first>> \o Sorted(names \ {first})

\* s.endswith(p)
EndsWith(s, p) == Len(p) <= Len(s) /\ SubSeq(s, Len(s) - Len(p) + 1, Len(s)) = p

\* sorted(f for f in os.listdir(dir) if f.startswith(prefix) and f.endswith(".png"))
SortedListing(names, prefix) ==
    Sorted({f \in names : StartsWith(f, prefix) /\ EndsWith(f, ".png")})

\* post_file.replace("clean_post_", "").replace(".png", "")
PostNum(post_file) == SubSeq(post_file, Len("clean_post_") + 1, Len(post_file) - Len(".png"))

\* the clean image isolate_post writes for post_id
CleanPostName(post_id) == "clean_post_" \o ToString(post_id) \o ".png"

OrderKeys == {"profile"} \cup {PostKey(i) : i \in 1..MaxScraped}

InitOrder ==
    /\ api_key = TRUE
    /\ ocr_backend = TRUE
    /\ screenshot \in {"missing", "ok"}
    /\ \E n \in 0..MaxScraped, dated \in BOOLEAN :
          /\ post_files = [i \in 1..n |-> "ok"]
          /\ post_names = [i \in 1..n |-> ScreenshotFilename(i, dated)]
    /\ clean_files = {}
    /\ pc = "order_profile"
    /\ cursor = <<>>
    /\ results = [clean_content |-> <<>>, diagnoses |-> <<>>, evidence |-> <<>>,
                  rendered |-> <<>>, playbooks |-> <<>>]
    /\ quality_report = [computed |-> FALSE]
    /\ raised = ""
    /\ d_pc = "idle"
    /\ d_key = ""
    /\ attempt = 0
    /\ ocr_text = ""
    /\ verdict = EmptyDict
    /\ issues = <<>>
    /\ d_ret = EmptyDict
    /\ gen_log = <<>>
    /\ u_call = NoCall
    /\ u_ret = NotReturned
    /\ log = <<>>
    /\ hist = [k \in OrderKeys |-> <<"PENDING">>]

\* isolate_all_content: the profile screenshot, then the listing of the posts
OrderIsolateProfile ==
    /\ pc = "order_profile"
    /\ IF screenshot = "ok"
       THEN /\ results' = [results EXCEPT !.clean_content =
                              Append(@, [key |-> "profile", value |-> "clean_profile.png"])]
            /\ clean_files' = clean_files \cup {"clean_profile.png"}
            /\ log' = Append(log, Event("isolation", "profile", "screenshot.png"))
            /\ hist' = Mark("profile", "ISOLATED")
       ELSE UNCHANGED <<results, clean_files, log, hist>>
    /\ cursor' = SortedListing({post_names[i] : i \in 1..Len(post_names)}, "post_")
    /\ pc' = "order_posts"
    /\ UNCHANGED <<envVars, callVars, quality_report, raised, diagVars>>

\* isolate_all_content: for i, post_file in enumerate(post_files, 1)
OrderIsolatePost ==
    /\ pc = "order_posts"
    /\ cursor # <<>>
    /\ LET post_file == Head(cursor)
           i == Len(post_names) - Len(cursor) + 1
       IN  /\ results' = [results EXCEPT !.clean_content =
                             Append(@, [key |-> PostKey(i), value |-> CleanPostName(i)])]
           /\ clean_files' = clean_files \cup {CleanPostName(i)}
           /\ log' = Append(log, Event("isolation", PostKey(i), post_file))
           /\ hist' = Mark(PostKey(i), "ISOLATED")
    /\ cursor' = Tail(cursor)
    /\ UNCHANGED <<envVars, callVars, pc, quality_report, raised, diagVars>>

\* run, then diagnose_all_content: clean_profile.png if it exists, then the
\* sorted listing of the clean post images
OrderIsolationDone ==
    /\ pc = "order_posts"
    /\ cursor = <<>>
    /\ IF results.clean_content = <<>>
       THEN Raise("RuntimeError") /\ UNCHANGED cursor
       ELSE /\ pc' = "order_diagnose"
            /\ cursor' = (IF "clean_profile.png" \in clean_files
                          THEN <<"clean_profile.png">> ELSE <<>>)
                         \o SortedListing(clean_files, "clean_post_")
            /\ UNCHANGED raised
    /\ UNCHANGED <<envVars, callVars, clean_files, results, quality_report, diagVars, log, hist>>

\* diagnose_all_content: one clean image, its verdict stored under its key
OrderDiagnose ==
    /\ pc = "order_diagnose"
    /\ cursor # <<>>
    /\ LET file == Head(cursor)
           key == IF file = "clean_profile.png" THEN "profile"
                  ELSE "post_" \o PostNum(file)
       IN  /\ results' = [results EXCEPT !.diagnoses =
                             Append(@, [key |-> key, value |-> PassResult(V_GOOD, "")])]
           /\ log' = Append(log, Event("diagnosis", key, file))
           /\ hist' = Mark(key, "DIAGNOSED")
    /\ cursor' = Tail(cursor)
    /\ UNCHANGED <<envVars, callVars, clean_files, pc, quality_report, raised, diagVars>>

\* diagnoses.json is written
OrderDiagnosisDone ==
    /\ pc = "order_diagnose"
    /\ cursor = <<>>
    /\ log' = Append(log, Event("diagnosis", "", "write_diagnoses"))
    /\ pc' = "order_done"
    /\ UNCHANGED <<envVars, callVars, clean_files, cursor, results, quality_report, raised,
                   diagVars, hist>>

NextOrder ==
    \/ OrderIsolateProfile
    \/ OrderIsolatePost
    \/ OrderIsolationDone
    \/ OrderDiagnose
    \/ OrderDiagnosisDone

SpecOrder == InitOrder /\ [][NextOrder]_vars

----------------------------------------------------------------------------
(* TeardownEngine._run_quality_checks on its own: self.results holds the   *)
(* verdicts of the first n content keys and a playbook for some of them.   *)

\* verdicts as diagnose returns them
QualityVerdicts ==
    {PassResult(V_GOOD, ""), PassResult(V_25, ""),
     LastAttemptResult(V_BANNED, "", <<"Contains banned phrase: 'looks good'">>),
     LastAttemptResult(V_LONG, "", <<"Verdict too long (26 words, max 25)">>),
     LastAttemptResult(V_PARTIAL, "", <<>>)}

\* playbooks as generate returns them; NO_PLAYBOOK: the key has no playbook
NO_PLAYBOOK ==
    [editorial_verdict |-> "", why_it_fails |-> <<>>, the_fix |-> "", parse_error |-> FALSE]
QualityPlaybooks ==
    {NO_PLAYBOOK, PlaybookParsed(V_GOOD), PlaybookFailed(V_GOOD),
     [PlaybookParsed(V_GOOD) EXCEPT !.the_fix = "Stop listing roles"],
     [PlaybookParsed(V_GOOD) EXCEPT !.the_fix = "Go FROM roles TO one story"]}

InitQuality ==
    /\ api_key = TRUE
    /\ ocr_backend = TRUE
    /\ screenshot = "ok"
    /\ post_files = <<>>
    /\ post_names = <<>>
    /\ clean_files = {}
    /\ pc = "quality"
    /\ cursor = <<>>
    /\ \E n \in 0..Len(KeyOrder) :
       \E vs \in [1..n -> QualityVerdicts], ps \in [1..n -> QualityPlaybooks] :
          results =
             [clean_content |-> <<>>,
              diagnoses |-> [i \in 1..n |-> [key |-> KeyOrder[i], value |-> vs[i]]],
              evidence |-> <<>>,
              rendered |-> <<>>,
              playbooks |->
                 LET Present(i) == ps[i] # NO_PLAYBOOK
                     have == SelectSeq([i \in 1..n |-> i], Present)
                 IN  [j \in 1..Len(have) |->
                        [key |-> KeyOrder[have[j]], value |-> ps[have[j]]]]]
    /\ quality_report = [computed |-> FALSE]
    /\ raised = ""
    /\ d_pc = "idle"
    /\ d_key = ""
    /\ attempt = 0
    /\ ocr_text = ""
    /\ verdict = EmptyDict
    /\ issues = <<>>
    /\ d_ret = EmptyDict
    /\ gen_log = <<>>
    /\ u_call = NoCall
    /\ u_ret = NotReturned
    /\ log = <<>>
    /\ hist = [k \in ContentKeys |-> <<"PENDING">>]

NextQuality ==
    \/ QualityCheck

SpecQuality == InitQuality /\ [][NextQuality]_vars

----------------------------------------------------------------------------
(* PlaybookGenerator.generate.  A playbook is a dict: editorial_verdict,   *)
(* the_fix and reusable_principle are strings, why_it_fails is a list of   *)
(* strings.  A response of the playbook call is [kind, obj] as above, with *)
(* "json_fenced": the JSON object obj inside a ```json fence.              *)

PLAYBOOK_BANNED_PHRASES ==
    <<"consider adding", "you might want to", "try adding", "add a hook",
      "improve engagement", "boost your", "optimize your", "level up",
      "best practice", "industry standard", "thought leader",
      "value proposition", "personal brand", "target audience">>

PB_FULL ==
    [editorial_verdict |-> "Reads like a resume.",
     why_it_fails |-> <<"Lists titles", "Hides the person", "No stakes">>,
     the_fix |-> "Shift from listing roles to telling one story",
     reusable_principle |-> "Lead with stakes"]
PB_NONE      == [PB_FULL EXCEPT !.why_it_fails = <<>>]
PB_TWO       == [PB_FULL EXCEPT !.why_it_fails = <<"Lists titles", "No stakes">>]
PB_FIVE      == [PB_FULL EXCEPT !.why_it_fails =
                    <<"Lists titles", "Hides the person", "No stakes", "Too long", "No proof">>]
PB_NOKEY     == [the_fix |-> "Shift from listing roles to telling one story",
                 editorial_verdict |-> "Reads like a resume.",
                 reusable_principle |-> "Lead with stakes"]
PB_NOVERDICT == [PB_FULL EXCEPT !.editorial_verdict = ""]
PB_BANNED    == [PB_FULL EXCEPT !.reusable_principle = "Build your Personal Brand"]

PbJson(obj)   == [kind |-> "json", obj |-> obj]
PbFenced(obj) == [kind |-> "json_fenced", obj |-> obj]
PbInText(obj) == [kind |-> "text_object", obj |-> obj]

PlaybookResponses ==
    {PbJson(PB_FULL), PbJson(PB_NONE), PbJson(PB_TWO), PbJson(PB_FIVE),
     PbJson(PB_NOKEY), PbJson(PB_NOVERDICT), PbJson(PB_BANNED),
     PbFenced(PB_FULL), PbFenced(PB_TWO),
     PbInText(PB_FULL), PbInText(PB_TWO), PbInText(PB_FIVE), PbInText(PB_NOKEY),
     PbInText(PB_NOVERDICT),
     R_API, R_OTHER, R_TEXT, R_BRACES}

\* the string values of a playbook, as json.dumps(playbook) holds them
PlaybookTexts(playbook) ==
    LET Of(k) == IF k \in DOMAIN playbook THEN <<playbook[k]>> ELSE <<>>
    IN  Of("editorial_verdict") \o Of("the_fix") \o Of("reusable_principle")
        \o (IF "why_it_fails" \in DOMAIN playbook THEN playbook.why_it_fails ELSE <<>>)

\* the phrases found in json.dumps(playbook).lower()
FoundBanned(playbook) ==
    LET texts == PlaybookTexts(playbook)
        Hit(phrase) == \E i \in 1..Len(texts) : Contains(Lower(texts[i]), phrase)
    IN  SelectSeq(PLAYBOOK_BANNED_PHRASES, Hit)

REQUIRED_FAILS == 3

\* fails + ["See above for details"] * (3 - len(fails))
RECURSIVE Padded(_)
Padded(fails) ==
    IF Len(fails) < REQUIRED_FAILS THEN Padded(Append(fails, "See above for details"))
    ELSE fails

\* PlaybookGenerator._validate_playbook: the exception it raises ("" if none),
\* and else the playbook it returns
ValidatePlaybook(playbook) ==
    LET found_banned == FoundBanned(playbook)
        warned == IF found_banned # <<>>
                  THEN DictSet(playbook, "quality_warnings",
                               [i \in 1..Len(found_banned) |->
                                   "Contains banned phrase: " \o found_banned[i]])
                  ELSE playbook
        has == "why_it_fails" \in DOMAIN playbook
        fails == IF has THEN playbook.why_it_fails ELSE <<>>
    IN  IF Len(fails) > REQUIRED_FAILS
        THEN [exc |-> "", value |-> DictSet(warned, "why_it_fails", SubSeq(fails, 1, 3))]
        ELSE IF Len(fails) < REQUIRED_FAILS
        THEN IF has
             THEN [exc |-> "", value |-> DictSet(warned, "why_it_fails", Padded(fails))]
             ELSE [exc |-> "KeyError", value |-> EmptyDict]
        ELSE [exc |-> "", value |-> warned]

\* the minimal structure generate returns on failure
MinimalPlaybook(one_sentence_verdict) ==
    [editorial_verdict |-> one_sentence_verdict,
     why_it_fails |-> <<"Unable to generate detailed analysis">>,
     the_fix |-> "Regenerate playbook",
     reusable_principle |-> "Unable to generate",
     parse_error |-> TRUE]

\* PlaybookGenerator.generate from the response on, for verdict v
ParsePlaybook(r, v) ==
    LET one_sentence_verdict == Get(v, "one_sentence_verdict").s
        minimal == [exc |-> "", value |-> MinimalPlaybook(one_sentence_verdict)]
    IN  CASE r.kind \in {"json", "json_fenced"} ->
                ValidatePlaybook(
                    IF r.obj.editorial_verdict = ""
                    THEN DictSet(r.obj, "editorial_verdict", one_sentence_verdict)
                    ELSE r.obj)
          [] r.kind = "json_other" ->
                [exc |-> "AttributeError", value |-> EmptyDict]
          [] r.kind = "text_object" ->
                IF ValidatePlaybook(r.obj).exc = "" THEN ValidatePlaybook(r.obj)
                ELSE minimal
          [] OTHER -> minimal

PlaybookVerdicts ==
    {PassResult(V_GOOD, "Founder at Acme"),
     LastAttemptResult(V_BANNED, "Founder at Acme", <<"Contains banned phrase: 'looks good'">>),
     LastAttemptResult(V_PARTIAL, "", <<>>)}

InitPlaybook ==
    /\ api_key = TRUE
    /\ ocr_backend = TRUE
    /\ screenshot = "ok"
    /\ post_files = <<>>
    /\ post_names = <<>>
    /\ clean_files = {}
    /\ pc = "standalone"
    /\ cursor = <<>>
    /\ results = [clean_content |-> <<>>, diagnoses |-> <<>>, evidence |-> <<>>,
                  rendered |-> <<>>, playbooks |-> <<>>]
    /\ quality_report = [computed |-> FALSE]
    /\ raised = ""
    /\ d_pc = "idle"
    /\ d_key = ""
    /\ attempt = 0
    /\ ocr_text = ""
    /\ verdict = EmptyDict
    /\ issues = <<>>
    /\ d_ret = EmptyDict
    /\ gen_log = <<>>
    /\ \E v \in PlaybookVerdicts, content_type \in {"profile", "post"} :
          u_call = [fn |-> "generate", verdict |-> v, content_type |-> content_type,
                    at |-> "call"]
    /\ u_ret = NotReturned
    /\ log = <<>>
    /\ hist = [k \in ContentKeys |-> <<"PENDING">>]

\* generate: the chat completion call
PlaybookCall ==
    /\ u_call.fn = "generate"
    /\ u_call.at = "call"
    /\ \E r \in PlaybookResponses :
          IF r.kind = "api_error"
          THEN /\ Raise("APIError")
               /\ u_call' = [u_call EXCEPT !.at = "raised"]
          ELSE /\ u_call' = [fn |-> "generate", verdict |-> u_call.verdict,
                             content_type |-> u_call.content_type,
                             at |-> "parse", response |-> r]
               /\ UNCHANGED <<pc, raised>>
    /\ log' = Append(log, Event("playbook", u_call.content_type, "playbook_call"))
    /\ UNCHANGED <<envVars, clean_files, cursor, results, quality_report,
                   diagVars, u_ret, hist>>

\* generate: the response is parsed and validated
PlaybookParse ==
    /\ u_call.fn = "generate"
    /\ u_call.at = "parse"
    /\ LET p == ParsePlaybook(u_call.response, u_call.verdict)
       IN  IF p.exc # ""
           THEN /\ Raise(p.exc)
                /\ u_call' = [u_call EXCEPT !.at = "raised"]
                /\ UNCHANGED u_ret
           ELSE /\ u_ret' = [done |-> TRUE, value |-> p.value]
                /\ u_call' = [u_call EXCEPT !.at = "returned"]
                /\ UNCHANGED <<pc, raised>>
    /\ UNCHANGED <<envVars, clean_files, cursor, results, quality_report,
                   diagVars, log, hist>>

NextPlaybook ==
    \/ PlaybookCall
    \/ PlaybookParse

SpecPlaybook == InitPlaybook /\ [][NextPlaybook]_vars

----------------------------------------------------------------------------
(* EvidenceSelector.select_evidence: OCR elements, TextMatcher's line      *)
(* groups, the selection call and the evidence items.  An OCR element is   *)
(* [text, x1, y1, x2, y2] in pixels.                                       *)

\* most OCR elements of an image
MaxElements == 3

NAV_HEIGHT == 60
MIN_WIDTH == 20
MIN_HEIGHT == 8
SAME_LINE == 15
FALLBACK_WIDTH_40 == 50 - 10
FALLBACK_WIDTH == 50
MAX_EVIDENCE_Four == 3 + 1
MAX_EVIDENCE == 3

Abs(n) == IF n < 0 THEN 0 - n ELSE n
Max(a, b) == IF a > b THEN a ELSE b
Min(a, b) == IF a < b THEN a ELSE b

\* str.strip() is empty
IsBlank(t) == \A i \in 1..Len(t) : CharAt(t, i) = " "

\* the elements that are no UI chrome: below the nav bar, not tiny
NotChrome_AnyHeight(e) ==
    /\ e.y1 > NAV_HEIGHT
    /\ e.x2 - e.x1 > MIN_WIDTH
NotChrome(e) ==
    /\ e.y1 > NAV_HEIGHT
    /\ e.x2 - e.x1 > MIN_WIDTH
    /\ e.y2 - e.y1 > MIN_HEIGHT

\* sorted(filtered, key=lambda e: (e.y1, e.x1)), a stable sort
KeyLess(a, b) == a.y1 < b.y1 \/ (a.y1 = b.y1 /\ a.x1 < b.x1)

RECURSIVE InsertByKey(_, _)
InsertByKey(e, sorted) ==
    IF sorted = <<>> THEN <<e>>
    ELSE IF KeyLess(e, sorted[1]) THEN <<e>> \o sorted
    ELSE <<sorted[1]>> \o InsertByKey(e, Tail(sorted))

RECURSIVE SortedElements(_)
SortedElements(elements) ==
    IF elements = <<>> THEN <<>>
    ELSE InsertByKey(elements[Len(elements)],
                     SortedElements(SubSeq(elements, 1, Len(elements) - 1)))

\* a group started by elem
NewGroup(elem) ==
    [text |-> elem.text, x1 |-> elem.x1, y1 |-> elem.y1, x2 |-> elem.x2, y2 |-> elem.y2]

\* the current group extended by an element of the same line
ExtendGroup_LastElement(group, elem) ==
    [group EXCEPT !.text = @ \o " " \o elem.text,
                  !.x2 = elem.x2,
                  !.y2 = elem.y2]
ExtendGroup(group, elem) ==
    [group EXCEPT !.text = @ \o " " \o elem.text,
                  !.x2 = Max(@, elem.x2),
                  !.y2 = Max(@, elem.y2)]

\* the loop of _group_ocr_elements over the sorted elements
RECURSIVE GroupLoop(_, _, _)
GroupLoop(sorted_elements, groups, current_group) ==
    IF sorted_elements = <<>>
    THEN IF current_group # <<>> /\ ~IsBlank(current_group[1].text)
         THEN Append(groups, current_group[1]) ELSE groups
    ELSE LET elem == Head(sorted_elements)
             rest == Tail(sorted_elements)
         IN  IF current_group = <<>>
             THEN GroupLoop(rest, groups, <<NewGroup(elem)>>)
             ELSE IF Abs(elem.y1 - current_group[1].y1) < SAME_LINE
             THEN GroupLoop(rest, groups, <<ExtendGroup(current_group[1], elem)>>)
             ELSE GroupLoop(rest,
                            IF ~IsBlank(current_group[1].text)
                            THEN Append(groups, current_group[1]) ELSE groups,
                            <<NewGroup(elem)>>)

\* TextMatcher._group_ocr_elements
GroupOcrElements(ocr_elements) ==
    LET kept == SelectSeq(ocr_elements, NotChrome)
        filtered == IF kept = <<>> THEN ocr_elements ELSE kept
    IN  GroupLoop(SortedElements(filtered), <<>>, <<>>)

\* an entry of the list match returns
MatchRecord_Padded(group, matched_source) ==
    [text |-> group.text, x1 |-> group.x1 - 4, y1 |-> group.y1 - 4,
     x2 |-> group.x2 + 4, y2 |-> group.y2 + 4, matched_source |-> matched_source]
MatchRecord(group, matched_source) ==
    [text |-> group.text, x1 |-> group.x1, y1 |-> group.y1,
     x2 |-> group.x2, y2 |-> group.y2, matched_source |-> matched_source]

\* the fallback of match: the first max_results wide groups
Fallback(grouped, max_results) ==
    LET Wide(g) == g.x2 - g.x1 > FALLBACK_WIDTH
        wide == SelectSeq(grouped, Wide)
        fallback == SubSeq(wide, 1, Min(Len(wide), max_results))
    IN  [i \in 1..Len(fallback) |-> MatchRecord(fallback[i], "Fallback")]

\* Responses of the selection call, [kind, selected]:
\*   "api_error"  the call fails            "text"      the text is no JSON
\*   "json_other" valid JSON, no object     "json_ids"  {"selected": selected}
\*   "json_nokey" an object without "selected"
\*   "json_bad"   {"selected": [...]} holding an id that is no int
Selected(ids) == [kind |-> "json_ids", selected |-> ids]
S_API   == [kind |-> "api_error", selected |-> <<>>]
S_TEXT  == [kind |-> "text", selected |-> <<>>]
S_OTHER == [kind |-> "json_other", selected |-> <<>>]
S_NOKEY == [kind |-> "json_nokey", selected |-> <<>>]
S_BAD   == [kind |-> "json_bad", selected |-> <<>>]

SelectionResponses ==
    {S_API, S_TEXT, S_OTHER, S_NOKEY, S_BAD,
     Selected(<<>>), Selected(<<1>>), Selected(<<2, 1>>), Selected(<<1, 1>>),
     Selected(<<3, 1, 2, 1>>), Selected(<<0, 2>>), Selected(<<2, 9, 1>>),
     Selected(<<0, 9>>)}

\* TextMatcher.match from the groups on
Match_EmptyFallsBack(grouped, response, max_results) ==
    IF response.kind \in {"api_error", "text", "json_other", "json_bad"}
    THEN Fallback(grouped, max_results)
    ELSE LET selected_ids == response.selected
             taken == SubSeq(selected_ids, 1, Min(Len(selected_ids), max_results))
             InRange(idx) == 1 <= idx /\ idx <= Len(grouped)
             valid == SelectSeq(taken, InRange)
         IN  IF valid = <<>> THEN Fallback(grouped, max_results)
             ELSE [i \in 1..Len(valid) |->
                     MatchRecord(grouped[valid[i]], "Element " \o ToString(valid[i]))]
Match(grouped, response, max_results) ==
    IF response.kind \in {"api_error", "text", "json_other", "json_bad"}
    THEN Fallback(grouped, max_results)
    ELSE LET selected_ids == response.selected
             taken == SubSeq(selected_ids, 1, Min(Len(selected_ids), max_results))
             InRange(idx) == 1 <= idx /\ idx <= Len(grouped)
             valid == SelectSeq(taken, InRange)
         IN  [i \in 1..Len(valid) |->
                MatchRecord(grouped[valid[i]], "Element " \o ToString(valid[i]))]

\* OCR elements the selection is checked against
E_NAV  == [text |-> "Home",    x1 |-> 10,  y1 |-> 20,  x2 |-> 60,  y2 |-> 40]
E_HEAD == [text |-> "Founder", x1 |-> 40,  y1 |-> 80,  x2 |-> 110, y2 |-> 100]
E_LEFT == [text |-> "Acme",    x1 |-> 10,  y1 |-> 90,  x2 |-> 35,  y2 |-> 112]
E_SIDE == [text |-> "x",       x1 |-> 300, y1 |-> 84,  x2 |-> 310, y2 |-> 96]
E_WORD == [text |-> "About",   x1 |-> 40,  y1 |-> 140, x2 |-> 85,  y2 |-> 160]
E_LINE == [text |-> "Builder", x1 |-> 30,  y1 |-> 200, x2 |-> 130, y2 |-> 220]
E_LAST == [text |-> "Contact", x1 |-> 30,  y1 |-> 260, x2 |-> 120, y2 |-> 280]
E_RULE == [text |-> "Skills",  x1 |-> 30,  y1 |-> 300, x2 |-> 130, y2 |-> 306]

OcrPool == {E_NAV, E_HEAD, E_LEFT, E_SIDE, E_WORD, E_LINE, E_LAST, E_RULE}

\* the lists extract_ocr may return: up to MaxElements different elements
OcrLists ==
    {l \in UNION {[1..n -> OcrPool] : n \in 0..MaxElements} :
        \A i, j \in 1..Len(l) : i # j => l[i] # l[j]}

EvidenceVerdicts ==
    {PassResult(V_GOOD, ""), PassResult(V_25, ""),
     LastAttemptResult(V_PARTIAL, "", <<>>)}

InitEvidence ==
    /\ api_key = TRUE
    /\ ocr_backend \in BOOLEAN
    /\ screenshot = "ok"
    /\ post_files = <<>>
    /\ post_names = <<>>
    /\ clean_files = {"profile"}
    /\ pc = "standalone"
    /\ cursor = <<>>
    /\ results = [clean_content |-> <<>>, diagnoses |-> <<>>, evidence |-> <<>>,
                  rendered |-> <<>>, playbooks |-> <<>>]
    /\ quality_report = [computed |-> FALSE]
    /\ raised = ""
    /\ d_pc = "idle"
    /\ d_key = ""
    /\ attempt = 0
    /\ ocr_text = ""
    /\ verdict = EmptyDict
    /\ issues = <<>>
    /\ d_ret = EmptyDict
    /\ gen_log = <<>>
    /\ \E v \in EvidenceVerdicts, l \in OcrLists :
          \/ u_call = [fn |-> "select_evidence", verdict |-> v, ocr_elements |-> l,
                       max_results |-> MAX_EVIDENCE, at |-> "ocr"]
          \/ /\ ocr_backend
             /\ v = PassResult(V_GOOD, "")
             /\ \E max_results \in 1..2 :
                  u_call = [fn |-> "match_text", verdict |-> v, ocr_elements |-> l,
                            max_results |-> max_results, at |-> "match"]
    /\ u_ret = NotReturned
    /\ log = <<>>
    /\ hist = [k \in ContentKeys |-> <<"PENDING">>]

\* select_evidence: extract_ocr needs the OCR backend
SelectEvidenceOcr ==
    /\ u_call.fn = "select_evidence"
    /\ u_call.at = "ocr"
    /\ IF ocr_backend
       THEN /\ u_call' = [u_call EXCEPT !.at = "match"]
            /\ UNCHANGED <<pc, raised>>
       ELSE /\ u_call' = [u_call EXCEPT !.at = "raised"]
            /\ Raise("ImportError")
    /\ UNCHANGED <<envVars, clean_files, cursor, results, quality_report,
                   diagVars, u_ret, log, hist>>

\* match_text, and for select_evidence the evidence items built from it;
\* without OCR elements match returns [] and makes no call
MatchText ==
    /\ u_call.fn \in {"select_evidence", "match_text"}
    /\ u_call.at = "match"
    /\ \E response \in (IF u_call.ocr_elements = <<>> THEN {Selected(<<>>)}
                        ELSE SelectionResponses) :
          LET matches == IF u_call.ocr_elements = <<>> THEN <<>>
                         ELSE Match(GroupOcrElements(u_call.ocr_elements), response,
                                    u_call.max_results)
          IN  /\ u_call' = [fn |-> u_call.fn, verdict |-> u_call.verdict,
                            ocr_elements |-> u_call.ocr_elements,
                            max_results |-> u_call.max_results,
                            at |-> "returned",
                            called |-> u_call.ocr_elements # <<>>,
                            response |-> response]
              /\ u_ret' = [done |-> TRUE, matches |-> matches,
                           value |-> IF u_call.fn = "match_text" THEN [evidence |-> <<>>]
                                     ELSE SelectEvidence(matches, u_call.verdict)]
              /\ log' = IF u_call.ocr_elements = <<>> THEN log
                        ELSE Append(log, Event("evidence", "profile", "selection_call"))
    /\ UNCHANGED <<envVars, clean_files, runVars, raised, diagVars, hist>>

NextEvidence ==
    \/ SelectEvidenceOcr
    \/ MatchText

SpecEvidence == InitEvidence /\ [][NextEvidence]_vars

----------------------------------------------------------------------------
(* HandDrawnRenderer.render.  The overlay is the list of the shapes drawn, *)
(* each with the place in the evidence list of the item it was drawn for;  *)
(* the jitter of the hand-drawn lines is left out.                         *)

\* most evidence items in a list handed to render
MaxItems == 3

NOTE_WIDTH == 150
NOTE_GAP == 20
NOTE_TOP == 10

Box(x1, y1, x2, y2) == [x1 |-> x1, y1 |-> y1, x2 |-> x2, y2 |-> y2]

I_HEAD  == [id |-> 1, editorial_caption |-> "Credible, but forgettable.",
            bounding_box |-> Box(40, 80, 110, 100)]
I_EDGE  == [id |-> 2, editorial_caption |-> "Issue here",
            bounding_box |-> Box(300, 4, 390, 18)]
I_FLAT  == [id |-> 3, editorial_caption |-> "Issue here",
            bounding_box |-> Box(40, 140, 85, 140)]
I_THIN  == [id |-> 4, editorial_caption |-> "Issue here",
            bounding_box |-> Box(60, 200, 60, 220)]
I_BACK  == [id |-> 5, editorial_caption |-> "Issue here",
            bounding_box |-> Box(130, 200, 30, 220)]
I_NOBOX == [id |-> 6, editorial_caption |-> "Issue here"]

RenderItems == {I_HEAD, I_EDGE, I_FLAT, I_THIN, I_BACK, I_NOBOX}

EvidenceLists == UNION {[1..n -> RenderItems] : n \in 0..MaxItems}

\* item.get("bounding_box", {}) with its .get(..., 0) reads
BoxOfItem(item) ==
    IF "bounding_box" \in DOMAIN item THEN item.bounding_box ELSE Box(0, 0, 0, 0)

\* the box render does not draw
IsMalformed_XOnly(bbox) == bbox.x2 <= bbox.x1
IsMalformed(bbox) == bbox.x2 <= bbox.x1 \/ bbox.y2 <= bbox.y1

\* the shapes drawn for the item at place i of the list
ShapesOf(i, item, width) ==
    LET b == BoxOfItem(item)
        note_x == Min(width - NOTE_WIDTH, b.x2 + NOTE_GAP)
        note_y == Max(NOTE_TOP, b.y1 - 10)
    IN  <<[place |-> i, shape |-> "circle", bbox |-> b],
          [place |-> i, shape |-> "underline", bbox |-> b],
          [place |-> i, shape |-> "note", text |-> item.editorial_caption,
           x |-> note_x, y |-> note_y],
          [place |-> i, shape |-> "arrow", x |-> note_x - 10, y |-> note_y + 8,
           to_x |-> b.x2, to_y |-> b.y1]>>

InitRender ==
    /\ api_key = TRUE
    /\ ocr_backend = TRUE
    /\ screenshot = "ok"
    /\ post_files = <<>>
    /\ post_names = <<>>
    /\ clean_files = {"profile"}
    /\ pc = "standalone"
    /\ cursor = <<>>
    /\ results = [clean_content |-> <<>>, diagnoses |-> <<>>, evidence |-> <<>>,
                  rendered |-> <<>>, playbooks |-> <<>>]
    /\ quality_report = [computed |-> FALSE]
    /\ raised = ""
    /\ d_pc = "idle"
    /\ d_key = ""
    /\ attempt = 0
    /\ ocr_text = ""
    /\ verdict = EmptyDict
    /\ issues = <<>>
    /\ d_ret = EmptyDict
    /\ gen_log = <<>>
    /\ \E evidence \in EvidenceLists :
          u_call = [fn |-> "render", evidence |-> evidence, width |-> 400,
                    output_path |-> "editorial_teardown/profile_teardown.png",
                    next |-> 1, overlay |-> <<>>]
    /\ u_ret = NotReturned
    /\ log = <<>>
    /\ hist = [k \in ContentKeys |-> <<"PENDING">>]

\* one pass of the loop over the evidence items
RenderItem ==
    /\ u_call.fn = "render"
    /\ ~u_ret.done
    /\ u_call.next <= Len(u_call.evidence)
    /\ LET i == u_call.next
           item == u_call.evidence[i]
       IN  u_call' = [u_call EXCEPT
                         !.next = i + 1,
                         !.overlay = IF IsMalformed(BoxOfItem(item)) THEN @
                                     ELSE @ \o ShapesOf(i, item, u_call.width)]
    /\ UNCHANGED <<envVars, clean_files, runVars, raised, diagVars, u_ret, log, hist>>

\* the overlay is composed with the image and the file is written
RenderSave ==
    /\ u_call.fn = "render"
    /\ ~u_ret.done
    /\ u_call.next > Len(u_call.evidence)
    /\ u_ret' = [done |-> TRUE, value |-> u_call.output_path, written |-> u_call.overlay]
    /\ UNCHANGED <<envVars, clean_files, runVars, raised, diagVars, u_call, log, hist>>

NextRender ==
    \/ RenderItem
    \/ RenderSave

SpecRender == InitRender /\ [][NextRender]_vars

----------------------------------------------------------------------------
(* ContentIsolator.isolate_content called on its own, twice on the same    *)
(* input path                                                              *)

\* widest and tallest image isolated
MaxWidth == 2010
MaxHeight == 2

\* min(cap, int(width * rate)) for a rate of percent/100; the truncated float
\* product is the integer quotient for every width below 5000
Margin_Uncapped(width, percent, cap) == (width * percent) \div 100
Margin(width, percent, cap) == Min(cap, (width * percent) \div 100)

\* the rectangle handed to img.crop
CropBox(width, height, content_type) ==
    IF content_type = "post"
    THEN LET left_margin == Margin(width, 3, 50)
             right_margin == Margin(width, 5, 100)
         IN  [x1 |-> left_margin, y1 |-> 0, x2 |-> width - right_margin, y2 |-> height]
    ELSE LET left_margin == Margin(width, 2, 30)
             right_margin == Margin(width, 2, 30)
         IN  [x1 |-> left_margin, y1 |-> 0, x2 |-> width - right_margin, y2 |-> height]

\* the input path does not exist: a message is printed, None is returned
MissingOutcome_Raises == [exc |-> "FileNotFoundError", value |-> "", saved |-> <<>>]
MissingOutcome == [exc |-> "", value |-> "None", saved |-> <<>>]

\* one call of isolate_content: the exception that leaves it, the value it
\* returns and the file it saves (the crop rectangle and the size of the
\* cropped image)
IsolateContent(call) ==
    IF call.input = "missing" THEN MissingOutcome
    ELSE IF call.input = "unreadable"
    THEN [exc |-> "UnidentifiedImageError", value |-> "", saved |-> <<>>]
    ELSE LET box == CropBox(call.width, call.height, call.content_type)
         IN  [exc |-> "", value |-> call.output_path,
              saved |-> <<[path |-> call.output_path, box |-> box,
                           width |-> box.x2 - box.x1,
                           height |-> box.y2 - box.y1]>>]

IsolateCalls ==
    {[fn |-> "isolate_content", input |-> "ok", width |-> w, height |-> h,
      content_type |-> t,
      output_path |-> IF t = "post" THEN "clean_post_1.png" ELSE "clean_profile.png",
      calls |-> 0]
        : w \in 1..MaxWidth, h \in 1..MaxHeight, t \in {"profile", "post"}}
    \cup
    {[fn |-> "isolate_content", input |-> i, width |-> 0, height |-> 0,
      content_type |-> t,
      output_path |-> IF t = "post" THEN "clean_post_1.png" ELSE "clean_profile.png",
      calls |-> 0]
        : i \in {"missing", "unreadable"}, t \in {"profile", "post"}}

InitIsolate ==
    /\ api_key = TRUE
    /\ ocr_backend = TRUE
    /\ screenshot = "ok"
    /\ post_files = <<>>
    /\ post_names = <<>>
    /\ clean_files = {}
    /\ pc = "standalone"
    /\ cursor = <<>>
    /\ results = [clean_content |-> <<>>, diagnoses |-> <<>>, evidence |-> <<>>,
                  rendered |-> <<>>, playbooks |-> <<>>]
    /\ quality_report = [computed |-> FALSE]
    /\ raised = ""
    /\ d_pc = "idle"
    /\ d_key = ""
    /\ attempt = 0
    /\ ocr_text = ""
    /\ verdict = EmptyDict
    /\ issues = <<>>
    /\ d_ret = EmptyDict
    /\ gen_log = <<>>
    /\ u_call \in IsolateCalls
    /\ u_ret = [done |-> FALSE, saved |-> <<>>]
    /\ log = <<>>
    /\ hist = [k \in ContentKeys |-> <<"PENDING">>]

\* isolate_content runs from its first line to its return or its exception
IsolateContentCall ==
    /\ u_call.fn = "isolate_content"
    /\ u_call.calls < 2
    /\ LET out == IsolateContent(u_call)
       IN  /\ u_call' = [u_call EXCEPT !.calls = @ + 1]
           /\ IF out.exc # ""
              THEN /\ Raise(out.exc)
                   /\ u_ret' = [done |-> FALSE, saved |-> u_ret.saved]
              ELSE /\ u_ret' = [done |-> TRUE, value |-> out.value,
                                saved |-> u_ret.saved \o out.saved]
                   /\ UNCHANGED <<pc, raised>>
    /\ UNCHANGED <<envVars, clean_files, cursor, results, quality_report, diagVars,
                   log, hist>>

NextIsolate ==
    \/ IsolateContentCall

SpecIsolate == InitIsolate /\ [][NextIsolate]_vars

----------------------------------------------------------------------------
(* NarrativeDiagnosis._check_verdict_quality called on its own             *)

GateStories == {"Founder story", "Shows how it looks"}
GateSignals == {"Reads like a resume", "good enough for nobody", "Well done, great job"}
GateGaps ==
    {"No reason to care", "The headline Needs Improvement",
     "Lacks clarity, could be better"}
GateConsequences == {"Readers scroll past", "Nothing happens", "They WON'T call back"}
GateSentences ==
    {V_GOOD.one_sentence_verdict.s, V_LONG.one_sentence_verdict.s,
     V_25.one_sentence_verdict.s, V_HEDGE.one_sentence_verdict.s,
     V_UPPER.one_sentence_verdict.s, "Forgettable, perhaps by design."}

\* the verdicts the gate is called on: complete ones, one without most of its
\* fields, and two with a value that is no string
GateVerdicts ==
    {[primary_story |-> Str(p), actual_signal |-> Str(a), core_gap |-> Str(g),
      consequence |-> Str(c), one_sentence_verdict |-> Str(o)]
        : p \in GateStories, a \in GateSignals, g \in GateGaps,
          c \in GateConsequences, o \in GateSentences}
    \cup {V_PARTIAL, V_NULL, V_NUMBER}

InitGate ==
    /\ api_key = TRUE
    /\ ocr_backend = TRUE
    /\ screenshot = "ok"
    /\ post_files = <<>>
    /\ post_names = <<>>
    /\ clean_files = {}
    /\ pc = "standalone"
    /\ cursor = <<>>
    /\ results = [clean_content |-> <<>>, diagnoses |-> <<>>, evidence |-> <<>>,
                  rendered |-> <<>>, playbooks |-> <<>>]
    /\ quality_report = [computed |-> FALSE]
    /\ raised = ""
    /\ d_pc = "idle"
    /\ d_key = ""
    /\ attempt = 0
    /\ ocr_text = ""
    /\ verdict = EmptyDict
    /\ issues = <<>>
    /\ d_ret = EmptyDict
    /\ gen_log = <<>>
    /\ \E v \in GateVerdicts : u_call = [fn |-> "check_verdict_quality", verdict |-> v]
    /\ u_ret = NotReturned
    /\ log = <<>>
    /\ hist = [k \in ContentKeys |-> <<"PENDING">>]

\* _check_verdict_quality runs: it returns its list of issues, or .split() or
\* .lower() raises on a value that is no string
GateCall ==
    /\ u_call.fn = "check_verdict_quality"
    /\ ~u_ret.done
    /\ raised = ""
    /\ IF GateRaises(u_call.verdict)
       THEN Raise("AttributeError") /\ UNCHANGED u_ret
       ELSE /\ u_ret' = [done |-> TRUE, value |-> CheckVerdictQuality(u_call.verdict)]
            /\ UNCHANGED <<pc, raised>>
    /\ UNCHANGED <<envVars, clean_files, cursor, results, quality_report, diagVars,
                   u_call, log, hist>>

NextGate ==
    \/ GateCall

SpecGate == InitGate /\ [][NextGate]_vars

----------------------------------------------------------------------------
(* Claims about NarrativeDiagnosis.diagnose, checked under SpecDiag *)

\* generation calls made so far
GenCalls ==
    LET IsCall(e) == e.what = "generation_call" IN Len(SelectSeq(log, IsCall))

Returned == d_pc = "returned"

\* the returned value carries every field of verdict v unchanged
Carries(ret, v) == \A f \in DOMAIN v : f \in DOMAIN ret /\ ret[f] = v[f]

HasBanned(text) ==
    \E i \in 1..Len(BANNED_PHRASES) : Contains(Lower(text), BANNED_PHRASES[i])

HasCostWord(text) ==
    \E i \in 1..Len(COST_WORDS) : Contains(Lower(text), COST_WORDS[i])

\* C1: diagnose makes at most 3 generation calls; call n+1 is made only
\* after call n returned a verdict that failed the gate; a verdict that
\* passes is returned at once (passed_quality_gate = true) and no call follows it.
C1_BoundedRetries ==
    /\ GenCalls <= 3
    /\ Len(gen_log) <= GenCalls
    /\ \A n \in 1..(GenCalls - 1) :
          n <= Len(gen_log) /\ gen_log[n].issues # <<>>
    /\ \A n \in 1..Len(gen_log) :
          gen_log[n].issues = <<>> =>
             /\ n = GenCalls
             /\ Returned
             /\ d_ret.passed_quality_gate = TRUE
             /\ Carries(d_ret, gen_log[n].verdict)

\* two rejected verdicts, then a passing third one is returned
C1_Witness ==
    /\ Returned
    /\ GenCalls = 3
    /\ d_ret.passed_quality_gate = TRUE

AllAttemptsFailed ==
    /\ gen_log # <<>>
    /\ \A n \in 1..Len(gen_log) : gen_log[n].issues # <<>>

\* C2: when every generated verdict fails the gate, diagnose makes exactly 3
\* generation calls and returns the third verdict with passed_quality_gate =
\* false and quality_issues = the issues of that third attempt alone; nothing
\* is raised.  For the 'looks good' verdict the list is that banned phrase.
C2_AllAttemptsFail ==
    (Returned /\ AllAttemptsFailed) =>
        /\ GenCalls = 3
        /\ Len(gen_log) = 3
        /\ raised = ""
        /\ Carries(d_ret, gen_log[3].verdict)
        /\ d_ret.ocr_text = Str(ocr_text)
        /\ d_ret.passed_quality_gate = FALSE
        /\ "quality_issues" \in DOMAIN d_ret
        /\ d_ret.quality_issues = gen_log[3].issues
        /\ gen_log[3].verdict = V_BANNED =>
              d_ret.quality_issues = <<"Contains banned phrase: 'looks good'">>

\* three failing attempts with different issues, the last one 'looks good'
C2_Witness ==
    /\ Returned
    /\ AllAttemptsFailed
    /\ Len(gen_log) = 3
    /\ gen_log[3].verdict = V_BANNED
    /\ gen_log[1].issues # gen_log[3].issues
    /\ gen_log[2].issues # gen_log[3].issues

PassedVerdict == Returned /\ d_ret.passed_quality_gate = TRUE

\* C3 as claimed: a verdict returned with passed_quality_gate = true has no
\* banned phrase in any of its fields, ocr_text included, at most 25 words in
\* one_sentence_verdict and a cost verb in consequence.
C3_GateOnEveryField ==
    PassedVerdict =>
        /\ \A f \in DOMAIN d_ret \ {"passed_quality_gate", "quality_issues"} :
              ~HasBanned(d_ret[f].s)
        /\ WordCount(Get(d_ret, "one_sentence_verdict").s) <= 25
        /\ HasCostWord(Get(d_ret, "consequence").s)

\* C3 amended: a verdict returned with passed_quality_gate = true has no
\* banned phrase in any generated field (every field but the transcript
\* ocr_text, which is attached after the gate and is never checked), at most
\* 25 words in one_sentence_verdict and a cost verb in consequence.
C3_GateOnGeneratedFields ==
    PassedVerdict =>
        /\ \A f \in DOMAIN d_ret \ {"passed_quality_gate", "quality_issues", "ocr_text"} :
              ~HasBanned(d_ret[f].s)
        /\ WordCount(Get(d_ret, "one_sentence_verdict").s) <= 25
        /\ HasCostWord(Get(d_ret, "consequence").s)

\* a passing verdict of exactly 25 words, returned with a transcript that
\* holds a banned phrase
C3_Witness ==
    /\ PassedVerdict
    /\ WordCount(Get(d_ret, "one_sentence_verdict").s) = 25
    /\ HasBanned(d_ret.ocr_text.s)

\* C4: with the image present, no outcome of the transcript call or of a
\* generation call makes diagnose raise.
C4_NeverRaises == d_pc = "raised" => raised = "FileNotFoundError"

----------------------------------------------------------------------------
(* Claims about TeardownEngine.run, checked under Spec *)

State(k) == Last(hist[k])

Position(k) == CHOOSE i \in 1..Len(KeyOrder) : KeyOrder[i] = k

StageRank(stage) ==
    CASE stage = "isolation" -> 1
      [] stage = "diagnosis" -> 2
      [] stage = "evidence"  -> 3
      [] stage = "render"    -> 4
      [] OTHER               -> 5

Went(k, state) == \E i \in 1..Len(hist[k]) : hist[k][i] = state

HasArtifact(k) ==
    k \in KeySet(results.diagnoses) \cup KeySet(results.evidence)
          \cup KeySet(results.rendered) \cup KeySet(results.playbooks)

\* the API key is configured and the OCR backend is installed
EnvironmentOk == api_key /\ ocr_backend

\* every clean image in the directory was written by this run
NoStaleImage == clean_files \subseteq KeySet(results.clean_content)

FullLifecycle ==
    <<"PENDING", "ISOLATED", "DIAGNOSED", "EVIDENCED", "RENDERED", "PLAYBOOKED",
      "DONE">>

\* C6: an item isolated by the run that reaches DONE went through PENDING,
\* ISOLATED, DIAGNOSED, EVIDENCED, RENDERED, PLAYBOOKED, DONE, skipping none
\* (so its rendered image exists before its playbook is generated).
C6_FullLifecycle ==
    \A k \in ContentKeys :
        (State(k) = "DONE" /\ Went(k, "ISOLATED")) => hist[k] = FullLifecycle

\* C7: with the API key and the OCR backend present and no clean image left by
\* an earlier run, an item that was DIAGNOSED is never FAILED afterwards, and
\* when run ends, however it ends, the item is DONE.
C7_DiagnosedReachesDone ==
    \A k \in ContentKeys :
        (Went(k, "DIAGNOSED") /\ EnvironmentOk /\ NoStaleImage) =>
            /\ State(k) # "FAILED"
            /\ pc \in {"done", "raised"} => State(k) = "DONE"

\* C8: with the API key and the OCR backend present, an item whose isolation
\* failed has no verdict, evidence, rendered image or playbook under its key,
\* and its failure does not abort the run.
C8_IsolationFailureIsLocal ==
    \A k \in ContentKeys :
        (Went(k, "FAILED") /\ EnvironmentOk) =>
            /\ ~HasArtifact(k)
            /\ raised \notin {"UnidentifiedImageError", "RuntimeError"}

\* C9: with the API key and the OCR backend present, run never ends with an
\* exception, whatever the profile directory holds and whatever the stages
\* return: it reaches the quality check and returns.
C9_RunCompletes == EnvironmentOk => pc # "raised"

ModelCallMade ==
    \E i \in 1..Len(log) : log[i].what \in {"transcript_call", "generation_call"}

VerdictsWritten ==
    \E i \in 1..Len(log) : log[i].what = "write_diagnoses"

\* C10: when the missing OCR backend is detected, no model call has been made
\* and no verdict artifact has been written.
C10_OcrCheckedFirst ==
    raised = "ImportError" => ~ModelCallMade /\ ~VerdictsWritten

----------------------------------------------------------------------------
(* Claims about the processing order, checked under SpecOrder *)

\* the number of the scraped post a screenshot file was written for
ScrapeIndex(file) == CHOOSE i \in 1..Len(post_names) : post_names[i] = file

\* the post number of a content key
KeyNumber(k) == CHOOSE i \in 1..MaxScraped : PostKey(i) = k

\* C11: in every stage the profile is processed before any post, the posts are
\* processed in ascending post number, and that is the order in which they
\* were scraped, for any number of post screenshots.
C11_ScrapeOrder ==
    \A p, q \in 1..Len(log) :
        (p < q /\ log[p].stage = log[q].stage /\ log[p].key # "" /\ log[q].key # "") =>
            /\ log[q].key # "profile"
            /\ log[p].key # "profile" =>
                  /\ KeyNumber(log[p].key) < KeyNumber(log[q].key)
                  /\ log[p].stage = "isolation" =>
                        ScrapeIndex(log[p].what) < ScrapeIndex(log[q].what)

----------------------------------------------------------------------------
(* Claims about the quality report, checked under SpecQuality *)

\* the points the claim awards the i-th diagnosed item
ClaimedPoints(i) ==
    LET entry == results.diagnoses[i]
        v == Get(entry.value, "one_sentence_verdict").s
        fix == PlaybookFix(entry.key)
        B(b) == IF b THEN 1 ELSE 0
    IN  B(v # "" /\ WordCount(v) <= 20)
        + B(entry.value.passed_quality_gate = TRUE)
        + B(Contains(Lower(fix), "to"))

RECURSIVE ClaimedSum(_)
ClaimedSum(n) == IF n = 0 THEN 0 ELSE ClaimedPoints(n) + ClaimedSum(n - 1)

----------------------------------------------------------------------------
(* Claims about PlaybookGenerator.generate, checked under SpecPlaybook *)

GenerateReturned == u_call.fn = "generate" /\ u_ret.done

\* C13: every playbook generate returns has exactly 3 entries in
\* why_it_fails, whatever the response held and whichever path produced it.
C13_ThreeReasons ==
    GenerateReturned =>
        /\ "why_it_fails" \in DOMAIN u_ret.value
        /\ Len(u_ret.value.why_it_fails) = 3

\* C14: generate never raises, whatever the text of the response is.
C14_GenerateNeverRaises ==
    (u_call.fn = "generate" /\ "response" \in DOMAIN u_call) => raised = ""

----------------------------------------------------------------------------
(* Claims about select_evidence and match, checked under SpecEvidence *)

SelectEvidenceReturned == u_call.fn = "select_evidence" /\ u_ret.done

MatchReturned == u_call.fn \in {"select_evidence", "match_text"} /\ u_ret.done

\* the line groups of the image of the call
LineGroups == GroupOcrElements(u_call.ocr_elements)

BoxOf(r) == [x1 |-> r.x1, y1 |-> r.y1, x2 |-> r.x2, y2 |-> r.y2]

\* the selection call was made and its response was not usable as JSON ids
SelectionFailed ==
    /\ u_call.called
    /\ u_call.response.kind \in {"api_error", "text"}

\* C15: every bounding box select_evidence returns is the box of one of the
\* line groups of the image, on the selection path and on the fallback path.
C15_BoxesAreLineGroups ==
    SelectEvidenceReturned =>
        \A i \in 1..Len(u_ret.value.evidence) :
            \E g \in 1..Len(LineGroups) :
                u_ret.value.evidence[i].bounding_box = BoxOf(LineGroups[g])

\* two evidence items on the selection path and one on the fallback path are
\* reached; here the selection path, with a group of two elements
C15_Witness ==
    /\ SelectEvidenceReturned
    /\ u_call.called
    /\ u_call.response = Selected(<<2, 1>>)
    /\ Len(u_ret.value.evidence) = 2
    /\ \E g \in 1..Len(LineGroups) : LineGroups[g].text = "Founder Acme"

\* the ids of the response that match uses: the first max_results, in range
UsedIds ==
    LET ids == u_call.response.selected
        taken == SubSeq(ids, 1, Min(Len(ids), u_call.max_results))
        InRange(idx) == idx \in 1..Len(LineGroups)
    IN  SelectSeq(taken, InRange)

\* C16: select_evidence returns at most 3 items, their ids are 1..N in list
\* order, and the list is in selection order: the i-th item is the group of
\* the i-th usable id of the response, or on the fallback path the groups
\* appear in document order.
C16_DenseIdsInSelectionOrder ==
    SelectEvidenceReturned =>
        LET evidence == u_ret.value.evidence IN
        /\ Len(evidence) <= 3
        /\ \A i \in 1..Len(evidence) : evidence[i].id = i
        /\ (u_call.called /\ u_call.response.kind = "json_ids") =>
              /\ Len(evidence) = Len(UsedIds)
              /\ \A i \in 1..Len(evidence) :
                    evidence[i].bounding_box = BoxOf(LineGroups[UsedIds[i]])
        /\ (u_call.called /\ u_call.response.kind \in {"api_error", "text"}) =>
              \A i, j \in 1..Len(evidence) :
                  i < j => evidence[i].bounding_box.y1 < evidence[j].bounding_box.y1

\* four ids selected, the first three kept, in the order 3, 1, 2
C16_Witness ==
    /\ SelectEvidenceReturned
    /\ u_call.called
    /\ u_call.response = Selected(<<3, 1, 2, 1>>)
    /\ Len(LineGroups) = 3
    /\ Len(u_ret.value.evidence) = 3
    /\ u_ret.value.evidence[1].bounding_box = BoxOf(LineGroups[3])

\* C17: when every OCR element has x1 < x2 and y1 < y2, every bounding box
\* select_evidence returns has x2 > x1 and y2 > y1.
C17_BoxesAreProper ==
    (/\ SelectEvidenceReturned
     /\ \A i \in 1..Len(u_call.ocr_elements) :
           /\ u_call.ocr_elements[i].x1 < u_call.ocr_elements[i].x2
           /\ u_call.ocr_elements[i].y1 < u_call.ocr_elements[i].y2) =>
        \A i \in 1..Len(u_ret.value.evidence) :
            /\ u_ret.value.evidence[i].bounding_box.x2 > u_ret.value.evidence[i].bounding_box.x1
            /\ u_ret.value.evidence[i].bounding_box.y2 > u_ret.value.evidence[i].bounding_box.y1

\* the chrome filter removed every element, and the group of the unfiltered
\* list was selected
C17_Witness ==
    /\ SelectEvidenceReturned
    /\ u_call.ocr_elements # <<>>
    /\ \A i \in 1..Len(u_call.ocr_elements) : ~NotChrome(u_call.ocr_elements[i])
    /\ Len(u_ret.value.evidence) > 0

\* the groups wider than 50px, in document order
WideGroups ==
    LET Wide(g) == g.x2 - g.x1 > 50 IN SelectSeq(LineGroups, Wide)

\* C18: when the selection call fails or returns text that is no JSON, match
\* does not raise and returns the first max_results groups wider than 50px,
\* in document order, and never more than max_results.
C18_DeterministicFallback ==
    (MatchReturned /\ SelectionFailed) =>
        /\ raised = ""
        /\ Len(u_ret.matches) <= u_call.max_results
        /\ Len(u_ret.matches) = Min(Len(WideGroups), u_call.max_results)
        /\ \A i \in 1..Len(u_ret.matches) :
              /\ BoxOf(u_ret.matches[i]) = BoxOf(WideGroups[i])
              /\ u_ret.matches[i].text = WideGroups[i].text

\* the fallback skips a narrow group and cuts three wide groups to max_results
C18_Witness ==
    /\ MatchReturned
    /\ SelectionFailed
    /\ Len(WideGroups) > u_call.max_results
    /\ Len(u_ret.matches) = u_call.max_results

----------------------------------------------------------------------------
(* Claims about weak evidence in a run, checked under Spec *)

\* the evidence result stored for k is weak: no item was selected
WeakEvidence(k) ==
    /\ k \in KeySet(results.evidence)
    /\ Len(Lookup(results.evidence, k).evidence) < 1

\* an entry of the quality report about the evidence of k
EvidenceFlagged(k) ==
    \E i \in 1..Len(quality_report.warnings) :
        /\ StartsWith(quality_report.warnings[i], k \o ":")
        /\ Contains(Lower(quality_report.warnings[i]), "evidence")

\* C19: when run has ended, every item with a weak evidence result has its
\* rendered image all the same, and the quality report has an entry about
\* the weak evidence of that item.
C19_WeakEvidenceRenderedAndFlagged ==
    pc = "done" =>
        \A k \in ContentKeys :
            WeakEvidence(k) => k \in KeySet(results.rendered) /\ EvidenceFlagged(k)

----------------------------------------------------------------------------
(* Claims about HandDrawnRenderer.render, checked under SpecRender *)

RenderReturned == u_call.fn = "render" /\ u_ret.done

\* the item at place i has a bounding box with x2 > x1 and y2 > y1
ProperItem(i) ==
    /\ "bounding_box" \in DOMAIN u_call.evidence[i]
    /\ u_call.evidence[i].bounding_box.x2 > u_call.evidence[i].bounding_box.x1
    /\ u_call.evidence[i].bounding_box.y2 > u_call.evidence[i].bounding_box.y1

\* the shapes of the written image drawn for place i
DrawnFor(i) ==
    {n \in 1..Len(u_ret.written) : u_ret.written[n].place = i}

\* C20: render draws nothing for an item whose box has x2 <= x1 or y2 <= y1,
\* draws every other item of the list (circle, underline, note and arrow at
\* its box), wherever the malformed items stand, and writes the output file
\* without raising.
C20_MalformedSkipped ==
    RenderReturned =>
        /\ raised = ""
        /\ u_ret.value = u_call.output_path
        /\ \A i \in 1..Len(u_call.evidence) :
              IF ProperItem(i)
              THEN /\ Cardinality(DrawnFor(i)) = 4
                   /\ \A n \in DrawnFor(i) :
                         u_ret.written[n].shape \in {"circle", "underline"} =>
                            u_ret.written[n].bbox = u_call.evidence[i].bounding_box
              ELSE DrawnFor(i) = {}

\* a malformed item between two proper ones: both are drawn, it is not
C20_Witness ==
    /\ RenderReturned
    /\ Len(u_call.evidence) = 3
    /\ ProperItem(1) /\ ~ProperItem(2) /\ ProperItem(3)
    /\ u_call.evidence[2] = I_FLAT
    /\ Len(u_ret.written) = 8

----------------------------------------------------------------------------
(* Claims about the artifacts of a whole run, checked under Spec *)

PostKeys == ContentKeys \ {"profile"}

\* the entries of the quality report, checks and warnings together
ReportEntries == quality_report.checks \o quality_report.warnings

\* the keys of all artifact maps
ArtifactKeys ==
    KeySet(results.clean_content) \cup KeySet(results.diagnoses)
        \cup KeySet(results.evidence) \cup KeySet(results.rendered)
        \cup KeySet(results.playbooks)

\* C21: a finished run on a directory that holds a profile screenshot and no
\* post screenshots has one content item, "profile": the quality report holds
\* three entries, all for "profile", and no post_* key is in any artifact map.
C21_ProfileOnly ==
    (pc = "done" /\ screenshot = "ok" /\ post_files = <<>>) =>
        /\ Keys(results.clean_content) = <<"profile">>
        /\ Len(ReportEntries) = 3
        /\ \A i \in 1..Len(ReportEntries) : StartsWith(ReportEntries[i], "profile:")
        /\ ArtifactKeys \cap PostKeys = {}

\* the evidence list stored for k
EvidenceOf(k) == Lookup(results.evidence, k).evidence

\* C29: after a completed run the keys of playbooks are the keys of
\* diagnoses, the keys of evidence are keys of diagnoses, and the keys of
\* rendered images are the evidence keys with a non-empty evidence list and
\* an existing clean image; an item without evidence items has a playbook
\* and no rendered image.
C29_NestedArtifactMaps ==
    pc = "done" =>
        /\ KeySet(results.playbooks) = KeySet(results.diagnoses)
        /\ KeySet(results.evidence) \subseteq KeySet(results.diagnoses)
        /\ KeySet(results.rendered) =
              {k \in KeySet(results.evidence) :
                  Len(EvidenceOf(k)) > 0 /\ k \in clean_files}
        /\ \A k \in KeySet(results.evidence) :
              Len(EvidenceOf(k)) = 0 =>
                  k \in KeySet(results.playbooks) /\ k \notin KeySet(results.rendered)

\* a completed run with a profile without evidence items and a post with two
C29_Witness ==
    /\ pc = "done"
    /\ KeySet(results.evidence) = {"profile", "post_1"}
    /\ Len(EvidenceOf("profile")) = 0
    /\ Len(EvidenceOf("post_1")) = 2
    /\ KeySet(results.rendered) = {"post_1"}
    /\ KeySet(results.playbooks) = {"profile", "post_1"}

\* the items isolated by this run
Isolated == KeySet(results.clean_content)

\* C27: a run processes the items it isolated itself and no other: every key
\* of a verdict, an evidence result, a rendered image or a playbook is the
\* key of an item isolated by this run, and once the diagnosis stage is over
\* the items diagnosed are exactly the items isolated; a clean image left by
\* an earlier run is never picked up.
C27_OnlyItemsOfThisRun ==
    /\ ArtifactKeys \subseteq Isolated
    /\ pc \in {"evidence", "render", "playbook", "quality", "done"} =>
          KeySet(results.diagnoses) = Isolated

----------------------------------------------------------------------------
(* Claims about ContentIsolator.isolate_content, checked under SpecIsolate *)

\* floor(rate * W) capped, with the rate in percent
ClaimedMargin(percent, cap) ==
    LET floor == CHOOSE n \in 0..u_call.width :
                    100 * n <= percent * u_call.width
                    /\ percent * u_call.width < 100 * (n + 1)
    IN  IF floor < cap THEN floor ELSE cap

\* the rectangle the claim gives for the image of the call
ClaimedBox ==
    IF u_call.content_type = "post"
    THEN [x1 |-> ClaimedMargin(3, 50), y1 |-> 0,
          x2 |-> u_call.width - ClaimedMargin(5, 100), y2 |-> u_call.height]
    ELSE [x1 |-> ClaimedMargin(2, 30), y1 |-> 0,
          x2 |-> u_call.width - ClaimedMargin(2, 30), y2 |-> u_call.height]

\* C22: every crop of an image of width W >= 1 and height H >= 1 is the
\* rectangle x1 = min(cap, floor(r*W)), x2 = W - min(cap', floor(r'*W)),
\* y1 = 0, y2 = H of its content type, so two isolations of the same image
\* crop the same rectangle; 0 <= x1 < x2 <= W, the full height is kept and
\* the cropped image has positive width and height.
C22_CropRectangle ==
    \A i \in 1..Len(u_ret.saved) :
        LET s == u_ret.saved[i] IN
        /\ s.box = ClaimedBox
        /\ s.box = u_ret.saved[1].box
        /\ 0 <= s.box.x1 /\ s.box.x1 < s.box.x2 /\ s.box.x2 <= u_call.width
        /\ s.box.y1 = 0 /\ s.box.y2 = u_call.height
        /\ s.width > 0 /\ s.height > 0

\* a post image wide enough for both caps, isolated twice
C22_Witness ==
    /\ u_call.fn = "isolate_content"
    /\ u_call.content_type = "post"
    /\ u_call.width = 2000
    /\ Len(u_ret.saved) = 2
    /\ u_ret.saved[2].box = [x1 |-> 50, y1 |-> 0, x2 |-> 1900, y2 |-> u_call.height]


\* isolate_content was called on a path that does not exist
MissingIsolated ==
    u_call.fn = "isolate_content" /\ u_call.input = "missing" /\ u_call.calls > 0

\* C23 as claimed: isolating a raw image path that does not exist ends with
\* an exception surfaced to the caller instead of a returned value, and
\* writes no output file.
C23_MissingRaises ==
    MissingIsolated => raised # "" /\ ~u_ret.done /\ u_ret.saved = <<>>

\* C23 amended: isolating a raw image path that does not exist raises
\* nothing: the single attempt returns None to the caller, and writes no
\* output file.
C23_MissingReturnsNone ==
    MissingIsolated =>
        raised = "" /\ u_ret.done /\ u_ret.value = "None" /\ u_ret.saved = <<>>

\* the call on a missing path has returned
C23_Witness ==
    MissingIsolated /\ u_ret.done /\ u_ret.value = "None"

----------------------------------------------------------------------------
(* Claims about _check_verdict_quality, checked under SpecGate *)

GateReturned == u_call.fn = "check_verdict_quality" /\ u_ret.done

\* the value of a field of the verdict of the call, "" if it has none
Field(k) == Get(u_call.verdict, k).s

\* the five rules, as the claim words them
RuleNoBanned ==
    LET vals == Values(u_call.verdict)
        text == Join([i \in 1..Len(vals) |-> Lower(vals[i].s)])
    IN  \A i \in 1..Len(BANNED_PHRASES) : ~Contains(text, BANNED_PHRASES[i])
RuleShort == WordCount(Field("one_sentence_verdict")) <= 25
RuleNoHedge ==
    \A i \in 1..Len(WEAK_STARTS) :
        ~StartsWith(Lower(Field("one_sentence_verdict")), WEAK_STARTS[i])
RuleSpecificGap ==
    \A i \in 1..Len(GENERIC_GAPS) : ~Contains(Lower(Field("core_gap")), GENERIC_GAPS[i])
RuleCost ==
    \E i \in 1..Len(COST_WORDS) : Contains(Lower(Field("consequence")), COST_WORDS[i])

\* the gate reported an issue that starts with the given words
Reported(prefix) ==
    \E i \in 1..Len(u_ret.value) : StartsWith(u_ret.value[i], prefix)

----------------------------------------------------------------------------
(* Claims about _group_ocr_elements, checked under SpecEvidence *)

\* the OCR elements merged into group g: those whose text is a word of its
\* phrase (the elements of a list differ in their text)
Members(g) ==
    {e \in {u_call.ocr_elements[i] : i \in 1..Len(u_call.ocr_elements)} :
        Contains(" " \o g.text \o " ", " " \o e.text \o " ")}

\* C25: the bounding box of every line group is the union of the boxes of the
\* elements merged into it: x1 and y1 are the least x1 and y1 of its members,
\* x2 and y2 the greatest x2 and y2.
C25_UnionOfMemberBoxes ==
    MatchReturned =>
        \A n \in 1..Len(LineGroups) :
            LET g == LineGroups[n] IN
            /\ Members(g) # {}
            /\ \A e \in Members(g) :
                  g.x1 <= e.x1 /\ g.y1 <= e.y1 /\ g.x2 >= e.x2 /\ g.y2 >= e.y2
            /\ \E e \in Members(g) : g.x1 = e.x1
            /\ \E e \in Members(g) : g.y1 = e.y1
            /\ \E e \in Members(g) : g.x2 = e.x2
            /\ \E e \in Members(g) : g.y2 = e.y2


OcrElements == {u_call.ocr_elements[i] : i \in 1..Len(u_call.ocr_elements)}

\* an element the claim calls chrome: in the top 60px, narrower than 20px or
\* shorter than 8px
IsChrome(e) == e.y1 < 60 \/ e.x2 - e.x1 < 20 \/ e.y2 - e.y1 < 8

\* an element the filter lets through
PassesFilter(e) == e.y1 > 60 /\ e.x2 - e.x1 > 20 /\ e.y2 - e.y1 > 8

\* the phrases match works on (the candidates of the selection call and the
\* groups of the fallback) and the phrases it returns hold elements of S only
PhrasesOnlyOf(S) ==
    /\ \A n \in 1..Len(LineGroups) : Members(LineGroups[n]) \subseteq S
    /\ \A i \in 1..Len(u_ret.matches) : Members(u_ret.matches[i]) \subseteq S
    /\ Len(u_ret.value.evidence) <= Len(u_ret.matches)

\* C26 as claimed: for every list of OCR elements, no candidate phrase of the
\* selection call, no phrase of the fallback and no evidence item holds an
\* element in the top 60px, narrower than 20px or shorter than 8px.
C26_NoChromeEver ==
    (MatchReturned /\ u_call.called) =>
        PhrasesOnlyOf({e \in OcrElements : ~IsChrome(e)})

\* C26 amended: when at least one OCR element passes the filter (below the
\* top 60px, wider than 20px and taller than 8px), no candidate phrase of the
\* selection call, no phrase of the fallback and no evidence item holds an
\* element that fails it; when no element passes, nothing is filtered: the
\* phrases are built from every element of the list.
C26_ChromeFilteredUnlessAllChrome ==
    (MatchReturned /\ u_call.called) =>
        IF \E e \in OcrElements : PassesFilter(e)
        THEN PhrasesOnlyOf({e \in OcrElements : PassesFilter(e)})
        ELSE \A e \in OcrElements : \E n \in 1..Len(LineGroups) : e \in Members(LineGroups[n])

\* a nav bar word, a short rule and a headline: the headline alone is a
\* candidate, and it is the evidence
C26_Witness ==
    /\ SelectEvidenceReturned
    /\ u_call.ocr_elements = <<E_NAV, E_RULE, E_HEAD>>
    /\ Len(LineGroups) = 1
    /\ LineGroups[1].text = "Founder"
    /\ Len(u_ret.value.evidence) = 1

----------------------------------------------------------------------------
(* Claims about the placeholder verdict, checked under SpecDiag *)

\* the n-th generation call of the diagnose call returned the placeholder
PlaceholderAt(n) == gen_log[n].verdict = UNABLE_TO_PARSE

----------------------------------------------------------------------------
(* Claims about an empty selection, checked under SpecEvidence *)

\* the selection call returned {"selected": [...]} with no id of a line group
\* in the list
NothingSelected ==
    /\ u_call.called
    /\ u_call.response.kind = "json_ids"
    /\ \A i \in 1..Len(u_call.response.selected) :
          u_call.response.selected[i] \notin 1..Len(LineGroups)

\* C30: when the selection call returns parseable JSON whose selected list is
\* empty or holds only ids outside 1..(number of line groups), match returns
\* no match and does not fall back to the wide groups; select_evidence
\* returns an empty evidence list with evidence_strength "weak" and
\* verdict_supported false, which validate_evidence rejects.
C30_EmptySelectionNoFallback ==
    (MatchReturned /\ NothingSelected) =>
        /\ u_ret.matches = <<>>
        /\ u_call.fn = "select_evidence" =>
              /\ u_ret.value.evidence = <<>>
              /\ u_ret.value.evidence_strength = "weak"
              /\ u_ret.value.verdict_supported = FALSE
              /\ ~ValidateEvidence(u_ret.value)

\* ids 0 and 9 for an image with two wide line groups, which the fallback
\* would have returned
C30_Witness ==
    /\ SelectEvidenceReturned
    /\ u_call.called
    /\ u_call.response = Selected(<<0, 9>>)
    /\ Len(WideGroups) = 2
    /\ u_ret.value.evidence = <<>>

====
